---- MODULE Spec2Model ----
(***************************************************************************)
(* Notifly: an in-process notification center.  The model follows the      *)
(* engine of notifly.h (id_manager, notifly::add_observer,                 *)
(* remove_observer, remove_all_observers, post_notification with its       *)
(* a_async flag) and the worker pool PartyThreads::Pool it posts to.       *)
(*                                                                         *)
(* One application thread ("main") calls the engine; the workers of the    *)
(* pool run the queued callbacks.  A synchronous or asynchronous post is   *)
(* modelled step by step (validation, one step per observer, return), the  *)
(* other calls are atomic: they run entirely on the calling thread.        *)
(***************************************************************************)
EXTENDS Integers, Sequences, FiniteSets, TLC

\* ---------------------------------------------------------------- bounds
\* std::numeric_limits<int>::max() scaled down: get_unique_id fails when the
\* counter reaches it, so the ids are 1 .. MaxId - 1.
MaxId == 3
\* Number of asynchronous posts that may have unfinished tasks at a time.
MaxPosts == 1
\* The notifications delivered to one temporary observer are counted up to
\* this number.
MaxHeard == 2
\* How many wrappers the adapter may allocate.
MaxHandles == 2
MaxTasks == 2
MaxThreads == 2

\* ------------------------------------------------------------- constants
success == 0
observer_not_found == -1
notification_not_found == -2
payload_type_not_match == -3
no_more_observer_ids == -4
timeout == -5

Topics == {1, 2}
Callers == {"main"}
\* Every thread of the application: the caller and a thread that posts
\* while the caller waits in post_and_wait.
Threads == Callers \cup {"other"}
Workers == {"w1", "w2"}
NoThread == "none"
End == 0
nullptr == 0
Nodes == 1 .. MaxId

\* Argument types: the name typeid(T).name() gives and the reference kind.
TInt == [name |-> "i", ref |-> "val"]
TCvPtr == [name |-> "PSt18condition_variable", ref |-> "val"]
TMutexPtr == [name |-> "PSt5mutex", ref |-> "val"]
TBoolPtr == [name |-> "Pb", ref |-> "val"]

\* The callbacks the application registers.  A "plain" callback returns at
\* once, a "gated" one waits on a condition variable until the application
\* sets the flag `ready`.
sum_callback == [args |-> <<TInt, TInt>>, kind |-> "plain"]
critical_section == [args |-> <<TCvPtr, TMutexPtr, TBoolPtr>>, kind |-> "gated"]
Callbacks == {sum_callback, critical_section}
ArgLists == {cb.args : cb \in Callbacks}

\* The callbacks of the applications that call post_and_wait.  A
\* "responder" posts its answer on ReplyTopic from inside the callback, on
\* the thread that invoked it; a "temp" callback is the one post_and_wait
\* registers for the time of the call.
TPointPtr == [name |-> "PK5point", ref |-> "val"]
print_struct == [args |-> <<TPointPtr>>, kind |-> "plain"]
responder == [args |-> <<TInt, TInt>>, kind |-> "responder"]
ReplyTopic == 2
\* Callbacks that call the engine from inside a synchronous post.
adder == [args |-> <<TInt, TInt>>, kind |-> "adder"]
remover == [args |-> <<TInt, TInt>>, kind |-> "remover"]
Victim == 1
NestingCallbacks == {sum_callback, adder, remover, responder}
Temp(rtypes) == [args |-> rtypes, kind |-> "temp"]
WaitCallbacks == {sum_callback, print_struct, responder}
WaitArgLists == {cb.args : cb \in WaitCallbacks}
\* The payload a thread posts, and the answer of a responder to a request:
\* (a + b, a * b).
PayloadOf(c) == IF c = "main" THEN "1,2" ELSE "7,7"
Reply(P) == IF P = "1,2" THEN "3,2" ELSE "14,49"

VARIABLES
    m_observers,        \* topic -> list of observers (only topics present)
    m_observers_by_id,  \* observer id -> [notification, iterator]
    m_id_manager,       \* [m_ids, m_released_ids, m_next_id]
    m_mutex,            \* owner of the engine's recursive mutex
    mQueue,             \* task queue of the pool
    mStopping,          \* the pool's stopping flag
    dtor,               \* the engine's life: "never" destroyed (it lives as
                        \* long as the application) | "alive" | "stopping" |
                        \* "destroyed"
    wpc,                \* worker -> "idle" | "exec" | "done"
    func,               \* worker -> the task it popped and is executing
    pc,                 \* caller -> "idle" | "post"
    post,               \* caller -> the post in progress
    calls,              \* observers dispatched so far by the post in progress
    last,               \* the last call that returned: [op, ret]
    ready,              \* the flag gated callbacks wait for
    regOrder,           \* history: topic -> live ids in registration order
    oldSig,             \* history, where it is kept: topic -> its signature
                        \* when it was last emptied ("" when it never was)
    inflight,           \* history: tasks pushed and not yet executed
    rerun,              \* history: a task was executed that was not in flight
    pw,                 \* the post_and_wait in progress, NoWait when none
    rm,                 \* thread -> the observer it is removing, 0 when none
    another_notifly,    \* the members of the engine the application is not
                        \* calling at the moment (see Select)
    adapter,            \* the C adapter: g_default_handle, the wrappers
                        \* allocated and handed out, the callbacks map
    q,                  \* tp::thread_pool: the task queue
    threads,            \* the vector of the pool's threads
    flags,              \* thread -> the flag that tells it to finish
    isDone,             \* stop(true) was called
    isStop,             \* stop(false) was called
    tpc,                \* thread -> its position in the loop of set_thread
    fptr,               \* thread -> the task it popped (_f), 0 when none
    ran,                \* history: task -> how often it was run
    deleted,            \* history: the tasks clear_queue deleted
    job,                \* task -> what it calls: a callback (NoResize) or,
                        \* pushed by resize_thread_pool, resize(job)
    call                \* the call of the application to the pool

vars == << m_observers, m_observers_by_id, m_id_manager, m_mutex, mQueue,
           mStopping, dtor, wpc, func, pc, post, calls, last, ready, regOrder, oldSig, inflight,
           rerun, pw, rm, another_notifly, adapter, q, threads, flags,
           isDone, isStop, tpc, fptr, ran, deleted, job, call >>

\* The state of the engine, of its PartyThreads::Pool and of the C adapter.
engineVars == << m_observers, m_observers_by_id, m_id_manager, m_mutex,
                 mQueue, mStopping, dtor, wpc, func, pc, post, calls, last,
                 ready, regOrder, oldSig, inflight, rerun, pw, rm,
                 another_notifly, adapter >>

\* The state of a tp::thread_pool.
tpVars == << q, threads, flags, isDone, isStop, tpc, fptr, ran, deleted,
            job, call >>

\* --------------------------------------------------------------- helpers
Front(s) == s[1]

RECURSIVE Concat(_)
Concat(ss) == IF ss = << >> THEN "" ELSE Head(ss) \o Concat(Tail(ss))

Ids(list) == [i \in DOMAIN list |-> list[i].id]

FreeNode == CHOOSE n \in Nodes :
               /\ \A t \in DOMAIN m_observers :
                     \A i \in DOMAIN m_observers[t] : m_observers[t][i].node # n
               /\ \A m \in Nodes :
                     (\A t \in DOMAIN m_observers :
                         \A i \in DOMAIN m_observers[t] : m_observers[t][i].node # m)
                     => n <= m

\* The map without key k / with key k set to v.
MapErase(f, k) == [x \in DOMAIN f \ {k} |-> f[x]]
MapPut(f, k, v) == [x \in DOMAIN f \cup {k} |-> IF x = k THEN v ELSE f[x]]

\* The value of a history variable in the specifications that do not keep it.
NotKept == << >>

\* oldSig after topic t lost its last observer, whose signature was types.
Emptied(t, types) ==
    IF oldSig = NotKept THEN oldSig ELSE [oldSig EXCEPT ![t] = types]

NoTask == [post |-> 0, id |-> 0, kind |-> "plain", notification |-> 0]
NoPost == [topic |-> 0, async |-> FALSE, cursor |-> 0, slot |-> 0]
NoCall == [op |-> "none", ret |-> 0]
\* The registry and the id allocator of an engine that was just
\* constructed.
Fresh(instance) ==
    [instance |-> instance, m_observers |-> << >>,
     m_observers_by_id |-> << >>,
     m_id_manager |-> [m_ids |-> {}, m_released_ids |-> << >>,
                       m_next_id |-> 1],
     regOrder |-> [t \in Topics |-> << >>]]
\* A promise that holds no value; a result that was not written.
Unset == ""
NoWait == [post_topic |-> 0, wait_topic |-> 0, args |-> << >>, tmp |-> 0,
           promise |-> Unset, sets |-> 0, heard |-> 0, first |-> Unset,
           invoked |-> 0, woke |-> "", result |-> Unset]
Returned(op, ret) == [op |-> op, ret |-> ret]

\* ------------------------------------------------------------ stringType
stringType(T) ==
    IF T.ref = "lref" THEN "(Qxt&)" \o T.name
    ELSE IF T.ref = "rref" THEN "(Qxt&&)" \o T.name
    ELSE "(Qxt)" \o T.name

\* The fold (..., (types += stringType<Args>())).
stringTypes(args) == Concat([i \in DOMAIN args |-> stringType(args[i])])

\* ------------------------------------------------------------ id_manager
\* get_unique_id with the counter read but not advanced.
get_unique_id_stuck(m) ==
    IF m.m_released_ids # << >>
    THEN LET id == m.m_released_ids[Len(m.m_released_ids)]
         IN [id |-> id,
             m  |-> [m EXCEPT !.m_released_ids = SubSeq(@, 1, Len(@) - 1),
                              !.m_ids = @ \cup {id}]]
    ELSE IF m.m_next_id = MaxId
    THEN [id |-> -1, m |-> m]
    ELSE [id |-> m.m_next_id, m |-> [m EXCEPT !.m_ids = @ \cup {m.m_next_id}]]

get_unique_id(m) ==
    IF m.m_released_ids # << >>
    THEN LET id == m.m_released_ids[Len(m.m_released_ids)]
         IN [id |-> id,
             m  |-> [m EXCEPT !.m_released_ids = SubSeq(@, 1, Len(@) - 1),
                              !.m_ids = @ \cup {id}]]
    ELSE IF m.m_next_id = MaxId
    THEN [id |-> -1, m |-> m]
    ELSE [id |-> m.m_next_id,
          m  |-> [m EXCEPT !.m_next_id = @ + 1,
                           !.m_ids = @ \cup {m.m_next_id}]]

\* release_id putting the id under the ids released before it.
release_id_bottom(m, id) ==
    [m EXCEPT !.m_ids = @ \ {id}, !.m_released_ids = <<id>> \o @]

release_id(m, id) ==
    [m EXCEPT !.m_ids = @ \ {id}, !.m_released_ids = Append(@, id)]

\* ---------------------------------------------------------- std::list
\* push_front in the place of push_back.
push_front(list, obs) == << obs >> \o list

push_back(list, obs) == Append(list, obs)

\* list.erase(iterator): the node the iterator designates leaves the list.
erase(list, node) == SelectSeq(list, LAMBDA o : o.node # node)

\* The iterator after `node` in `list` (End after the last element).
NextItr(list, node) ==
    LET i == CHOOSE k \in DOMAIN list : list[k].node = node
    IN IF i = Len(list) THEN End ELSE list[i + 1].node

Begin(list) == IF list = << >> THEN End ELSE list[1].node

Deref(list, node) == list[CHOOSE k \in DOMAIN list : list[k].node = node]

\* ------------------------------------------------------- the engine lock
LockFree(c) == m_mutex \in {NoThread, c}

\* ---------------------------------------------------------- add_observer
\* add_observer without its signature check.
add_type_unchecked(a_notification, types) == FALSE

\* The signature check of add_observer: TRUE when the callback is refused.
add_type_mismatch(a_notification, types) ==
    /\ a_notification \in DOMAIN m_observers
    /\ Front(m_observers[a_notification]).types # types

\* add_observer going on with whatever get_unique_id returned.
id_unavailable_ignored(id) == FALSE

\* The test add_observer makes on the id it was given.
id_unavailable(id) == id = -1

\* What add_observer does to the registry and what it returns: the
\* signature check, the allocation of the id, the observer appended to the
\* list of its topic and entered in the index.
add_result(a_notification, a_method) ==
    LET types == stringTypes(a_method.args)
        g == get_unique_id(m_id_manager)
        same == [ret |-> 0, m_observers |-> m_observers,
                 m_observers_by_id |-> m_observers_by_id,
                 m_id_manager |-> m_id_manager, regOrder |-> regOrder]
    IN IF add_type_mismatch(a_notification, types)
       THEN [same EXCEPT !.ret = payload_type_not_match]
       ELSE IF id_unavailable(g.id)
       THEN [same EXCEPT !.ret = no_more_observer_ids]
       ELSE LET observer == [node |-> FreeNode, id |-> g.id, types |-> types,
                             notification |-> a_notification,
                             kind |-> a_method.kind]
                old == IF a_notification \in DOMAIN m_observers
                       THEN m_observers[a_notification] ELSE << >>
            IN [ret |-> g.id,
                m_observers |-> MapPut(m_observers, a_notification,
                                       push_back(old, observer)),
                m_observers_by_id |->
                    MapPut(m_observers_by_id, g.id,
                           [notification |-> a_notification,
                            iterator |-> observer.node]),
                m_id_manager |-> g.m,
                regOrder |-> [regOrder EXCEPT ![a_notification] =
                                                  Append(@, g.id)]]

add_observer(c, a_notification, a_method) ==
    /\ pc[c] = "idle" /\ LockFree(c)
    /\ LET r == add_result(a_notification, a_method)
       IN /\ m_observers' = r.m_observers
          /\ m_observers_by_id' = r.m_observers_by_id
          /\ m_id_manager' = r.m_id_manager
          /\ regOrder' = r.regOrder
          /\ last' = Returned("add_observer", r.ret)
    /\ UNCHANGED << m_mutex, mQueue, wpc, func, pc, post, calls, ready,
                    oldSig, inflight, rerun >>
    /\ UNCHANGED << mStopping, dtor, pw, rm >>
    /\ UNCHANGED << another_notifly, adapter >>
    /\ UNCHANGED tpVars

\* ------------------------------------------------------- remove_observer
\* remove_observer without its lookup.
remove_lookup_skipped(a_observer) == TRUE

\* The lookup remove_observer starts with: TRUE when the id is registered.
remove_lookup(a_observer) == a_observer \in DOMAIN m_observers_by_id

\* m_observers_by_id.erase forgotten.
index_erase_forgotten(index, a_observer) == index

\* m_observers_by_id.erase(a_observer).
index_erase(index, a_observer) == MapErase(index, a_observer)

\* The topic entry kept, with its empty list, after its last observer left.
topic_erase_forgotten(observers, t) == MapPut(observers, t, << >>)

\* m_observers.erase(a_notification_iterator): the entry of the topic goes.
topic_erase(observers, t) == MapErase(observers, t)

\* What remove_observer does to the registry and what it returns: the
\* lookup, the observer erased from its list, the topic entry erased with
\* its last observer, the index entry erased and the id released.
remove_result(a_observer) ==
    LET same == [ret |-> observer_not_found, m_observers |-> m_observers,
                 m_observers_by_id |-> m_observers_by_id,
                 m_id_manager |-> m_id_manager, regOrder |-> regOrder,
                 oldSig |-> oldSig]
    IN IF ~ remove_lookup(a_observer)
       THEN same
       ELSE LET e == IF a_observer \in DOMAIN m_observers_by_id
                     THEN m_observers_by_id[a_observer]
                     ELSE [notification |-> 0, iterator |-> End]
                t == e.notification
            IN [ret |-> success,
                m_observers |->
                    IF t \in DOMAIN m_observers
                    THEN LET rest == erase(m_observers[t], e.iterator)
                         IN IF rest = << >>
                            THEN topic_erase(m_observers, t)
                            ELSE MapPut(m_observers, t, rest)
                    ELSE m_observers,
                m_observers_by_id |-> index_erase(m_observers_by_id, a_observer),
                m_id_manager |-> release_id(m_id_manager, a_observer),
                regOrder |-> [s \in Topics |->
                                SelectSeq(regOrder[s],
                                          LAMBDA i : i # a_observer)],
                oldSig |->
                    IF t \in DOMAIN m_observers
                       /\ erase(m_observers[t], e.iterator) = << >>
                    THEN Emptied(t, Front(m_observers[t]).types)
                    ELSE oldSig]

remove_observer(c, a_observer) ==
    /\ pc[c] = "idle" /\ LockFree(c)
    /\ LET r == remove_result(a_observer)
       IN /\ m_observers' = r.m_observers
          /\ m_observers_by_id' = r.m_observers_by_id
          /\ m_id_manager' = r.m_id_manager
          /\ regOrder' = r.regOrder
          /\ oldSig' = r.oldSig
          /\ last' = Returned("remove_observer", r.ret)
    /\ UNCHANGED << m_mutex, mQueue, wpc, func, pc, post, calls, ready,
                    inflight, rerun >>
    /\ UNCHANGED << mStopping, dtor, pw, rm >>
    /\ UNCHANGED << another_notifly, adapter >>
    /\ UNCHANGED tpVars

\* remove_observer as the threads of a concurrent application run it, in
\* the three parts its locking makes of it.  First the lookup in the index,
\* made before the lock is taken.
RemoveBegin(c, a_observer) ==
    /\ pc[c] = "idle"
    /\ IF ~ remove_lookup(a_observer)
       THEN /\ last' = Returned("remove_observer", observer_not_found)
            /\ UNCHANGED << pc, rm >>
       ELSE /\ pc' = [pc EXCEPT ![c] = "rm_lock"]
            /\ rm' = [rm EXCEPT ![c] = a_observer]
            /\ last' = Returned("in_remove_observer", 0)
    /\ UNCHANGED << m_observers, m_observers_by_id, m_id_manager, m_mutex,
                    mQueue, mStopping, dtor, wpc, func, post, calls, ready,
                    regOrder, oldSig, inflight, rerun, pw >>
    /\ UNCHANGED << another_notifly, adapter >>
    /\ UNCHANGED tpVars

\* Then the block that holds the lock: the observer is erased from its list
\* and the topic entry with its last observer.  The topic and the iterator
\* are read through a reference into the index taken before the lock; when
\* the entry was erased in between the reference dangles, which is
\* undefined: the process may crash, or the erase may find nothing to do.
\* The iterator of the index entry still designates the observer: its topic
\* has a list with that node, or has no list, and then nothing is erased.
IteratorValid(a_observer) ==
    LET e == m_observers_by_id[a_observer]
    IN e.notification \in DOMAIN m_observers =>
          \E k \in DOMAIN m_observers[e.notification] :
             /\ m_observers[e.notification][k].node = e.iterator
             /\ m_observers[e.notification][k].id = a_observer

RemoveErase(c) ==
    /\ pc[c] = "rm_lock" /\ LockFree(c)
    /\ IF remove_lookup(rm[c]) /\ IteratorValid(rm[c])
       THEN LET r == remove_result(rm[c])
            IN /\ m_observers' = r.m_observers
               /\ regOrder' = r.regOrder
               /\ oldSig' = r.oldSig
               /\ pc' = [pc EXCEPT ![c] = "rm_tail"]
       ELSE /\ \E next \in {"rm_tail", "crashed"} :
                  pc' = [pc EXCEPT ![c] = next]
            /\ UNCHANGED << m_observers, regOrder, oldSig >>
    /\ UNCHANGED << m_observers_by_id, m_id_manager, m_mutex, mQueue,
                    mStopping, dtor, wpc, func, post, calls, last, ready,
                    inflight, rerun, pw, rm >>
    /\ UNCHANGED << another_notifly, adapter >>
    /\ UNCHANGED tpVars

\* Last, after the lock was released: the index entry is erased, the id is
\* released and the call returns.
RemoveFinish(c) ==
    /\ pc[c] = "rm_tail"
    /\ m_observers_by_id' = index_erase(m_observers_by_id, rm[c])
    /\ m_id_manager' = release_id(m_id_manager, rm[c])
    /\ last' = Returned("remove_observer", success)
    /\ pc' = [pc EXCEPT ![c] = "idle"]
    /\ rm' = [rm EXCEPT ![c] = 0]
    /\ UNCHANGED << m_observers, m_mutex, mQueue, mStopping, dtor, wpc, func,
                    post, calls, ready, regOrder, oldSig, inflight, rerun,
                    pw >>
    /\ UNCHANGED << another_notifly, adapter >>
    /\ UNCHANGED tpVars

\* -------------------------------------------------- remove_all_observers
\* remove_all_observers forgetting to release the ids.
release_all_skipped(m, ids) == m

RECURSIVE release_all(_, _)
release_all(m, ids) ==
    IF ids = << >> THEN m ELSE release_all(release_id(m, Head(ids)), Tail(ids))

\* What remove_all_observers returns and the registry it leaves.
remove_all_result(a_notification) ==
    IF a_notification \notin DOMAIN m_observers
    THEN [ret |-> 0, m_observers |-> m_observers,
          m_observers_by_id |-> m_observers_by_id,
          m_id_manager |-> m_id_manager, regOrder |-> regOrder,
          oldSig |-> oldSig]
    ELSE LET observers_by_notification == m_observers[a_notification]
             ids == Ids(observers_by_notification)
             gone == {ids[i] : i \in DOMAIN ids}
         IN [ret |-> Len(observers_by_notification),
             m_observers |-> MapErase(m_observers, a_notification),
             m_observers_by_id |->
                 [x \in DOMAIN m_observers_by_id \ gone |->
                     m_observers_by_id[x]],
             m_id_manager |-> release_all(m_id_manager, ids),
             regOrder |-> [regOrder EXCEPT ![a_notification] = << >>],
             oldSig |-> Emptied(a_notification,
                                Front(observers_by_notification).types)]

remove_all_observers(c, a_notification) ==
    /\ pc[c] = "idle" /\ LockFree(c)
    /\ LET r == remove_all_result(a_notification)
       IN /\ m_observers' = r.m_observers
          /\ m_observers_by_id' = r.m_observers_by_id
          /\ m_id_manager' = r.m_id_manager
          /\ regOrder' = r.regOrder
          /\ oldSig' = r.oldSig
          /\ last' = Returned("remove_all_observers", r.ret)
    /\ UNCHANGED << m_mutex, mQueue, wpc, func, pc, post, calls, ready,
                    inflight, rerun >>
    /\ UNCHANGED << mStopping, dtor, pw, rm >>
    /\ UNCHANGED << another_notifly, adapter >>
    /\ UNCHANGED tpVars

\* ----------------------------------------------------- post_notification
\* post_notification without the comparison of the signatures.
post_check_untyped(a_notification, types) ==
    IF a_notification \notin DOMAIN m_observers
    THEN notification_not_found
    ELSE success

\* post_notification reporting an absent topic as a signature mismatch.
post_check_merged(a_notification, types) ==
    IF a_notification \notin DOMAIN m_observers
    THEN payload_type_not_match
    ELSE IF Front(m_observers[a_notification]).types # types
    THEN payload_type_not_match
    ELSE success

\* The two checks post_notification makes before it dispatches.
post_check(a_notification, types) ==
    IF a_notification \notin DOMAIN m_observers
    THEN notification_not_found
    ELSE IF Front(m_observers[a_notification]).types # types
    THEN payload_type_not_match
    ELSE success

\* ------------------------------------------------- invoking a callback
\* The callback of the temporary observer that sets the promise at every
\* invocation.
Fulfil_unchecked(w, P) ==
    LET h == [w EXCEPT !.heard = IF @ < MaxHeard THEN @ + 1 ELSE @,
                       !.first = IF @ = Unset THEN P ELSE @]
    IN [h EXCEPT !.promise = P, !.sets = IF @ < MaxHeard THEN @ + 1 ELSE @]

\* The callback of the temporary observer invoked with payload P: it
\* fulfils the promise, once.  heard and first are history: the number of
\* invocations and the payload of the first.
Fulfil(w, P) ==
    LET h == [w EXCEPT !.heard = IF @ < MaxHeard THEN @ + 1 ELSE @,
                       !.first = IF @ = Unset THEN P ELSE @]
    IN IF w.promise # Unset
       THEN h
       ELSE [h EXCEPT !.promise = P, !.sets = @ + 1]

\* What the synchronous invocation of a callback with payload P does to the
\* post_and_wait in progress.  A responder posts Reply(P) on ReplyTopic,
\* synchronously: the post is validated and delivered to the observers of
\* ReplyTopic before the responder returns.
Invoke(kind, P, w) ==
    IF kind = "temp"
    THEN Fulfil(w, P)
    ELSE IF /\ kind = "responder"
            /\ post_check(ReplyTopic, stringTypes(responder.args)) = success
            /\ \E i \in DOMAIN m_observers[ReplyTopic] :
                  m_observers[ReplyTopic][i].kind = "temp"
    THEN Fulfil(w, Reply(P))
    ELSE w

RECURSIVE InvokeAll(_, _, _)
InvokeAll(list, P, w) ==
    IF list = << >> THEN w
    ELSE InvokeAll(Tail(list), P, Invoke(Head(list).kind, P, w))

PostName(a_async) ==
    IF a_async THEN "post_notification_async" ELSE "post_notification"

\* The posts whose tasks are not all executed, and a number for a new one.
BusySlots == {t.post : t \in inflight} \cup {post[c].slot : c \in Threads}
FreeSlots == (1 .. MaxPosts) \ BusySlots
NewSlot == CHOOSE p \in FreeSlots : \A p2 \in FreeSlots : p <= p2

\* The call takes the lock and validates; a refused post returns at once.
PostBegin(c, a_notification, args, a_async) ==
    /\ pc[c] = "idle" /\ LockFree(c)
    /\ a_async => FreeSlots # {}
    /\ LET chk == post_check(a_notification, stringTypes(args))
       IN IF chk # success
          THEN /\ last' = Returned(PostName(a_async), chk)
               /\ UNCHANGED << m_mutex, pc, post >>
          ELSE /\ m_mutex' = c
               /\ pc' = [pc EXCEPT ![c] = "post"]
               /\ post' = [post EXCEPT ![c] =
                             [topic |-> a_notification, async |-> a_async,
                              cursor |-> Begin(m_observers[a_notification]),
                              slot |-> IF a_async THEN NewSlot ELSE 0]]
               /\ last' = Returned("in_post", 0)
    /\ UNCHANGED << m_observers, m_observers_by_id, m_id_manager, mQueue, wpc,
                    func, calls, ready, regOrder, oldSig, inflight, rerun >>
    /\ UNCHANGED << mStopping, dtor, pw, rm >>
    /\ UNCHANGED << another_notifly, adapter >>
    /\ UNCHANGED tpVars

\* Pool::push: the task goes to the tail of the queue.
push(queue, task) == Append(queue, task)

\* What a callback does to the registry when it calls the engine from
\* inside a synchronous post, on the dispatching thread, which holds the
\* recursive lock: an "adder" registers sum_callback on its own topic, a
\* "remover" removes the observer Victim, a "responder" posts on ReplyTopic.
\* Every other callback leaves the engine alone.
NestedCall(callback) ==
    LET same == [op |-> "none", ret |-> 0, m_observers |-> m_observers,
                 m_observers_by_id |-> m_observers_by_id,
                 m_id_manager |-> m_id_manager, regOrder |-> regOrder,
                 oldSig |-> oldSig]
    IN IF callback.kind = "adder"
       THEN LET r == add_result(callback.notification, sum_callback)
            IN [op |-> "add_observer", ret |-> r.ret,
                m_observers |-> r.m_observers,
                m_observers_by_id |-> r.m_observers_by_id,
                m_id_manager |-> r.m_id_manager, regOrder |-> r.regOrder,
                oldSig |-> oldSig]
       ELSE IF callback.kind = "remover"
       THEN LET r == remove_result(Victim)
            IN [op |-> "remove_observer", ret |-> r.ret,
                m_observers |-> r.m_observers,
                m_observers_by_id |-> r.m_observers_by_id,
                m_id_manager |-> r.m_id_manager, regOrder |-> r.regOrder,
                oldSig |-> r.oldSig]
       ELSE IF callback.kind = "responder"
       THEN LET chk == post_check(ReplyTopic, stringTypes(responder.args))
            IN [same EXCEPT !.op = "post_notification",
                            !.ret = IF chk # success THEN chk
                                    ELSE Len(m_observers[ReplyTopic])]
       ELSE same

\* The iterator of the loop after the callback at `cursor` returned and
\* left the list `list`: the next observer when the node of the cursor is
\* still in the list.  When the callback removed its own observer the
\* increment reads a node that was freed, which is undefined: the loop may
\* go on at any observer of the list, end, or the process may crash.
Crashed == -1
Advance(list, cursor) ==
    IF \E k \in DOMAIN list : list[k].node = cursor
    THEN {NextItr(list, cursor)}
    ELSE {list[k].node : k \in DOMAIN list} \cup {End, Crashed}

\* One turn of the loop over the observers: the callback is pushed to the
\* pool (a_async) or invoked on the calling thread, which then waits for it
\* to return.
PostStep(c) ==
    /\ pc[c] = "post" /\ post[c].cursor # End
    /\ LET list == m_observers[post[c].topic]
           callback == Deref(list, post[c].cursor)
           task == [post |-> post[c].slot, id |-> callback.id,
                    kind |-> callback.kind,
                    notification |-> post[c].topic]
           n == NestedCall(callback)
           after == IF post[c].topic \in DOMAIN n.m_observers
                    THEN n.m_observers[post[c].topic] ELSE << >>
       IN /\ IF post[c].async
             THEN /\ mQueue' = push(mQueue, task)
                  /\ inflight' = inflight \cup {task}
                  /\ post' = [post EXCEPT
                                ![c].cursor = NextItr(list, post[c].cursor)]
                  /\ UNCHANGED << m_observers, m_observers_by_id,
                                  m_id_manager, regOrder, oldSig, last, pc,
                                  pw >>
             ELSE /\ callback.kind = "gated" => ready
                  /\ pw' = Invoke(callback.kind, PayloadOf(c), pw)
                  /\ m_observers' = n.m_observers
                  /\ m_observers_by_id' = n.m_observers_by_id
                  /\ m_id_manager' = n.m_id_manager
                  /\ regOrder' = n.regOrder
                  /\ oldSig' = n.oldSig
                  /\ last' = IF n.op = "none" THEN last
                             ELSE Returned("nested_" \o n.op, n.ret)
                  /\ \E next \in Advance(after, post[c].cursor) :
                        IF next = Crashed
                        THEN /\ pc' = [pc EXCEPT ![c] = "crashed"]
                             /\ post' = post
                        ELSE /\ pc' = pc
                             /\ post' = [post EXCEPT ![c].cursor = next]
                  /\ UNCHANGED << mQueue, inflight >>
          /\ calls' = Append(calls, callback.id)
    /\ UNCHANGED << m_mutex, wpc, func, ready, rerun >>
    /\ UNCHANGED << mStopping, dtor, rm >>
    /\ UNCHANGED << another_notifly, adapter >>
    /\ UNCHANGED tpVars

\* post_notification waiting for the futures of the tasks it pushed.
post_waits_for_tasks(c) == \A t \in inflight : t.post # post[c].slot

\* What post_notification waits for after the loop before it returns:
\* nothing.
post_may_return(c) == TRUE

\* The loop is over: the call returns the size of the list and unlocks.
\* When a callback removed the last observer of the topic the list was
\* destroyed with the entry of the topic, and its size is read from freed
\* memory: any number.
PostReturn(c) ==
    /\ pc[c] = "post" /\ post[c].cursor = End
    /\ post_may_return(c)
    /\ IF post[c].topic \in DOMAIN m_observers
       THEN last' = Returned(PostName(post[c].async),
                             Len(m_observers[post[c].topic]))
       ELSE \E size \in 0 .. MaxId :
               last' = Returned(PostName(post[c].async), size)
    /\ pc' = [pc EXCEPT ![c] = "idle"]
    /\ post' = [post EXCEPT ![c] = NoPost]
    /\ calls' = << >>
    /\ m_mutex' = NoThread
    /\ UNCHANGED << m_observers, m_observers_by_id, m_id_manager, mQueue, wpc,
                    func, ready, regOrder, oldSig, inflight, rerun >>
    /\ UNCHANGED << mStopping, dtor, pw, rm >>
    /\ UNCHANGED << another_notifly, adapter >>
    /\ UNCHANGED tpVars

\* ------------------------------------------------ PartyThreads::Pool
\* Queue::pop handing out the front element without removing it.
pop_without_remove(queue) == [task |-> Head(queue), queue |-> queue]

\* Queue::pop as a worker calls it, directly or from the predicate of its
\* wait: the task at the head of the queue.
pop(queue) == [task |-> Head(queue), queue |-> Tail(queue)]

WorkerPop(w) ==
    /\ wpc[w] = "idle" /\ mQueue # << >>
    /\ LET r == pop(mQueue)
       IN /\ func' = [func EXCEPT ![w] = r.task]
          /\ mQueue' = r.queue
    /\ wpc' = [wpc EXCEPT ![w] = "exec"]
    /\ UNCHANGED << m_observers, m_observers_by_id, m_id_manager, m_mutex, pc,
                    post, calls, last, ready, regOrder, oldSig, inflight,
                    rerun >>
    /\ UNCHANGED << mStopping, dtor, pw, rm >>
    /\ UNCHANGED << another_notifly, adapter >>
    /\ UNCHANGED tpVars

\* A task whose wrapper calls the callable on every call.
packaged_task_reinvoked(task, pending) == "run"

\* push wraps the callable in a std::packaged_task, and *func calls that
\* task: its first call runs the callable, a later call throws future_error
\* (promise_already_satisfied) without running it.  `pending` are the tasks
\* pushed and not invoked yet.
packaged_task(task, pending) ==
    IF task \in pending THEN "run" ELSE "future_error"

\* (*func)(): the callback runs and returns; a gated one waits for `ready`.
\* After the call the worker tests the stopping flag (the head of its loop)
\* and leaves when it is set.  It keeps the pointer in func.  While the pool
\* is running it calls func only after a pop that overwrote it, so in an
\* application that never destroys the engine the pointer is dead after the
\* call and is recorded as NoTask.  A call that throws ends the worker's
\* thread (std::async keeps the exception in the thread's future).
WorkerExec(w) ==
    /\ wpc[w] = "exec"
    /\ func[w].kind = "gated" => ready
    /\ LET runs == packaged_task(func[w], inflight) = "run"
           n == NestedCall(IF runs THEN func[w] ELSE NoTask)
       IN /\ n.op # "none" => m_mutex = NoThread
          /\ rerun' = (rerun \/ (runs /\ func[w] \notin inflight))
          /\ wpc' = [wpc EXCEPT
                       ![w] = IF mStopping \/ ~ runs THEN "done" ELSE "idle"]
          /\ m_observers' = n.m_observers
          /\ m_observers_by_id' = n.m_observers_by_id
          /\ m_id_manager' = n.m_id_manager
          /\ regOrder' = n.regOrder
          /\ oldSig' = n.oldSig
          /\ last' = IF n.op = "none" THEN last
                     ELSE Returned("nested_" \o n.op, n.ret)
    /\ inflight' = inflight \ {func[w]}
    /\ func' = [func EXCEPT ![w] = IF dtor = "never" THEN NoTask ELSE @]
    /\ UNCHANGED << m_mutex, mQueue, pc, post, calls, ready >>
    /\ UNCHANGED << mStopping, dtor, pw, rm >>
    /\ UNCHANGED << another_notifly, adapter >>
    /\ UNCHANGED tpVars

\* The wait of an idle worker ends because the pool is stopping: nothing
\* was popped, and the worker calls what func points to, the task it
\* called last if there is one, before it leaves its loop.
WorkerWake(w) ==
    /\ wpc[w] = "idle" /\ mStopping
    /\ wpc' = [wpc EXCEPT ![w] = IF func[w] = NoTask THEN "done" ELSE "exec"]
    /\ UNCHANGED << m_observers, m_observers_by_id, m_id_manager, m_mutex,
                    mQueue, mStopping, dtor, func, pc, post, calls, last,
                    ready, regOrder, oldSig, inflight, rerun >>
    /\ UNCHANGED << pw, rm >>
    /\ UNCHANGED << another_notifly, adapter >>
    /\ UNCHANGED tpVars

\* ~notifly destroys m_pool: ~Pool calls stop(true), which sets the
\* stopping flag and wakes every worker.
Destroy(c) ==
    /\ pc[c] = "idle" /\ dtor = "alive"
    /\ mStopping' = TRUE
    /\ dtor' = "stopping"
    /\ last' = Returned("in_destructor", 0)
    /\ UNCHANGED << m_observers, m_observers_by_id, m_id_manager, m_mutex,
                    mQueue, wpc, func, pc, post, calls, ready, regOrder,
                    oldSig, inflight, rerun >>
    /\ UNCHANGED << pw, rm >>
    /\ UNCHANGED << another_notifly, adapter >>
    /\ UNCHANGED tpVars

\* stop(true) has waited for every worker thread to finish; clearQueue then
\* deletes what is left in the queue and the destructor returns.
Join(c) ==
    /\ dtor = "stopping"
    /\ \A w \in Workers : wpc[w] = "done"
    /\ mQueue' = << >>
    /\ UNCHANGED << pw, rm >>
    /\ dtor' = "destroyed"
    /\ last' = Returned("destructor", 0)
    /\ UNCHANGED << m_observers, m_observers_by_id, m_id_manager, m_mutex,
                    mStopping, wpc, func, pc, post, calls, ready, regOrder,
                    oldSig, inflight, rerun >>
    /\ UNCHANGED << another_notifly, adapter >>
    /\ UNCHANGED tpVars

\* ------------------------------------------------------- the application
\* The application thread sets the flag the gated callbacks wait for.
SetReady(c) ==
    /\ pc[c] = "idle" /\ ~ ready
    /\ ready' = TRUE
    /\ UNCHANGED << m_observers, m_observers_by_id, m_id_manager, m_mutex,
                    mQueue, wpc, func, pc, post, calls, last, regOrder,
                    oldSig, inflight, rerun >>
    /\ UNCHANGED << mStopping, dtor, pw, rm >>
    /\ UNCHANGED << another_notifly, adapter >>
    /\ UNCHANGED tpVars

\* ----------------------------------------------------------- post_and_wait
\* post_and_wait going on after a registration that failed.
pw_register_failed_ignored(ret) == FALSE

\* Step 2: the registration of the temporary observer failed.
pw_register_failed(ret) == ret <= 0

\* post_and_wait waiting whatever the post returned.
pw_post_failed_never(chk) == FALSE

\* Step 3: the post on the post topic failed.
pw_post_failed(chk) == chk # success

\* post_and_wait leaving the temporary observer registered.
pw_cleanup_skipped(tmp) ==
    [ret |-> success, m_observers |-> m_observers,
     m_observers_by_id |-> m_observers_by_id, m_id_manager |-> m_id_manager,
     regOrder |-> regOrder, oldSig |-> oldSig]

\* The removal of the temporary observer: remove_observer(tmp).
pw_cleanup(tmp) == remove_result(tmp)

\* A future that is never found ready.
future_never_ready(w) == FALSE

\* Step 5: the wait on the future ends at once when the promise is
\* fulfilled, and otherwise when the timeout expires.
future_ready(w) == w.promise # Unset

\* post_and_wait handing out whatever the promise holds.
pw_result_late(woke, promise) == promise

\* The result post_and_wait writes: the response payload after a
\* fulfilment, nothing after a timeout.
pw_result(woke, promise) == IF woke = "fulfilled" THEN promise ELSE Unset

\* notifly_post_and_wait: *response_data is the result on success and NULL
\* otherwise.
response_data(ret, result) == IF ret = success THEN result ELSE Unset

\* Steps 1 and 2: the promise is created and the temporary observer is
\* registered on the wait topic; a failed registration is returned.
PwRegister(c, post_topic, wait_topic, rtypes, args) ==
    /\ pc[c] = "idle" /\ LockFree(c)
    /\ LET r == add_result(wait_topic, Temp(rtypes))
       IN /\ m_observers' = r.m_observers
          /\ m_observers_by_id' = r.m_observers_by_id
          /\ m_id_manager' = r.m_id_manager
          /\ regOrder' = r.regOrder
          /\ IF pw_register_failed(r.ret)
             THEN /\ last' = Returned("post_and_wait", r.ret)
                  /\ pw' = NoWait
                  /\ UNCHANGED pc
             ELSE /\ last' = Returned("in_post_and_wait", 0)
                  /\ pw' = [NoWait EXCEPT !.post_topic = post_topic,
                                          !.wait_topic = wait_topic,
                                          !.args = args, !.tmp = r.ret]
                  /\ pc' = [pc EXCEPT ![c] = "pw_post"]
    /\ UNCHANGED << m_mutex, mQueue, mStopping, dtor, rm, wpc, func, post, calls,
                    ready, oldSig, inflight, rerun >>
    /\ UNCHANGED << another_notifly, adapter >>
    /\ UNCHANGED tpVars

\* Steps 3 and 4: the synchronous post on the post topic, under the lock
\* from its validation to the return of the last callback.  A post that
\* failed, or that reached no observer, removes the temporary observer and
\* is returned.
PwPost(c) ==
    /\ pc[c] = "pw_post" /\ LockFree(c)
    /\ LET chk == post_check(pw.post_topic, stringTypes(pw.args))
           list == IF pw.post_topic \in DOMAIN m_observers
                   THEN m_observers[pw.post_topic] ELSE << >>
       IN /\ \A i \in DOMAIN list : list[i].kind = "gated" => ready
          /\ IF pw_post_failed(chk) \/ Len(list) = 0
             THEN LET r == pw_cleanup(pw.tmp)
                  IN /\ m_observers' = r.m_observers
                     /\ m_observers_by_id' = r.m_observers_by_id
                     /\ m_id_manager' = r.m_id_manager
                     /\ regOrder' = r.regOrder
                     /\ oldSig' = r.oldSig
                     /\ last' = Returned("post_and_wait",
                                         IF pw_post_failed(chk) THEN chk
                                         ELSE notification_not_found)
                     /\ pw' = NoWait
                     /\ pc' = [pc EXCEPT ![c] = "idle"]
             ELSE /\ pw' = [InvokeAll(list, PayloadOf(c), pw)
                               EXCEPT !.invoked = Len(list)]
                  /\ pc' = [pc EXCEPT ![c] = "pw_wait"]
                  /\ last' = Returned("in_post_and_wait", Len(list))
                  /\ UNCHANGED << m_observers, m_observers_by_id,
                                  m_id_manager, regOrder, oldSig >>
    /\ UNCHANGED << m_mutex, mQueue, mStopping, dtor, rm, wpc, func, post, calls,
                    ready, inflight, rerun >>
    /\ UNCHANGED << another_notifly, adapter >>
    /\ UNCHANGED tpVars

\* Step 5, the wait: it ends with the promise fulfilled or with the
\* timeout expired.
PwWake(c) ==
    /\ pc[c] = "pw_wait"
    /\ pw' = [pw EXCEPT !.woke = IF future_ready(pw) THEN "fulfilled"
                                 ELSE "timeout"]
    /\ pc' = [pc EXCEPT ![c] = "pw_remove"]
    /\ UNCHANGED << m_observers, m_observers_by_id, m_id_manager, m_mutex,
                    mQueue, mStopping, dtor, rm, wpc, func, post, calls, last,
                    ready, regOrder, oldSig, inflight, rerun >>
    /\ UNCHANGED << another_notifly, adapter >>
    /\ UNCHANGED tpVars

\* Step 5, the end: the temporary observer is removed and the call returns
\* Success with the response payload, or Timeout.
PwRemove(c) ==
    /\ pc[c] = "pw_remove" /\ LockFree(c)
    /\ LET r == pw_cleanup(pw.tmp)
       IN /\ m_observers' = r.m_observers
          /\ m_observers_by_id' = r.m_observers_by_id
          /\ m_id_manager' = r.m_id_manager
          /\ regOrder' = r.regOrder
          /\ oldSig' = r.oldSig
    /\ last' = Returned("post_and_wait",
                        IF pw.woke = "fulfilled" THEN success ELSE timeout)
    /\ pw' = [NoWait EXCEPT !.result = pw_result(pw.woke, pw.promise)]
    /\ pc' = [pc EXCEPT ![c] = "idle"]
    /\ UNCHANGED << m_mutex, mQueue, mStopping, dtor, rm, wpc, func, post, calls,
                    ready, inflight, rerun >>
    /\ UNCHANGED << another_notifly, adapter >>
    /\ UNCHANGED tpVars

\* ------------------------------------------------------------------ Init
\* ----------------------------------------------------- tp::thread_pool
\* The threads a pool may start over its life, and the tasks pushed to it,
\* numbered in the order of their pushes.
TpThreads == 1 .. MaxThreads
TpTasks == 1 .. MaxTasks

\* No call of the application to the pool is in progress.  `pushes` counts
\* the pushes made so far and `stopped` tells that a stop has returned.
NoResize == -1
TpIdle ==
    [pc |-> "idle", op |-> "none", arg |-> 0, pushes |-> 0, stopped |-> FALSE]

\* thread_pool(): init() and the default-constructed members.
init ==
    /\ q = << >>
    /\ threads = << >>
    /\ flags = [t \in TpThreads |-> FALSE]
    /\ isDone = FALSE
    /\ isStop = FALSE
    /\ tpc = [t \in TpThreads |-> "unborn"]
    /\ fptr = [t \in TpThreads |-> 0]
    /\ ran = [k \in TpTasks |-> 0]
    /\ deleted = {}
    /\ job = [k \in TpTasks |-> NoResize]
    /\ call = TpIdle

Constructed ==
    /\ m_observers = << >>
    /\ m_observers_by_id = << >>
    /\ m_id_manager = [m_ids |-> {}, m_released_ids |-> << >>, m_next_id |-> 1]
    /\ m_mutex = NoThread
    /\ mQueue = << >>
    /\ mStopping = FALSE
    /\ wpc = [w \in Workers |-> "idle"]
    /\ func = [w \in Workers |-> NoTask]
    /\ pc = [c \in Threads |-> "idle"]
    /\ post = [c \in Threads |-> NoPost]
    /\ calls = << >>
    /\ last = NoCall
    /\ ready = FALSE
    /\ regOrder = [t \in Topics |-> << >>]
    /\ inflight = {}
    /\ rerun = FALSE
    /\ pw = NoWait
    /\ rm = [c \in Threads |-> 0]
    /\ another_notifly = Fresh("another_notifly")
    /\ adapter = [g_default_handle |-> nullptr, allocated |-> 0,
                  returned |-> {}, callbacks |-> {}]
    /\ init

Init == Constructed /\ oldSig = NotKept /\ dtor = "never"

\* ------------------------------------------------------------------ Next
\* The pool has nothing queued and nothing running.
Quiet == mQueue = << >> /\ \A w \in Workers : wpc[w] = "idle"

Dispatch ==
    \/ \E c \in Callers : PostStep(c)
    \/ \E c \in Callers : PostReturn(c)
    \/ \E c \in Callers : SetReady(c)
    \/ \E w \in Workers : WorkerPop(w)
    \/ \E w \in Workers : WorkerExec(w)

\* An application that lets the pool drain before its next call.
Next ==
    \/ Quiet /\ \E c \in Callers, t \in Topics, cb \in Callbacks :
                   add_observer(c, t, cb)
    \/ Quiet /\ \E c \in Callers, i \in 0 .. MaxId : remove_observer(c, i)
    \/ Quiet /\ \E c \in Callers, t \in Topics : remove_all_observers(c, t)
    \/ Quiet /\ \E c \in Callers, t \in Topics, a \in ArgLists, s \in BOOLEAN :
                   PostBegin(c, t, a, s)
    \/ Dispatch

Spec == Init /\ [][Next]_vars

\* An application that calls the engine while callbacks are queued or
\* running.
ConcNext ==
    \/ \E c \in Callers, t \in Topics, cb \in Callbacks :
          add_observer(c, t, cb)
    \/ \E c \in Callers, i \in 0 .. MaxId : remove_observer(c, i)
    \/ \E c \in Callers, t \in Topics : remove_all_observers(c, t)
    \/ \E c \in Callers, t \in Topics, a \in ArgLists, s \in BOOLEAN :
          PostBegin(c, t, a, s)
    \/ Dispatch

ConcSpec == Init /\ [][ConcNext]_vars

\* An application that registers its observers and then posts
\* asynchronously, again and again, without waiting for the callbacks.
\* The workers are scheduled fairly and the application eventually sets the
\* flag the gated callbacks wait for.
LiveNext ==
    \/ Quiet /\ \E c \in Callers, t \in Topics, cb \in Callbacks :
                   add_observer(c, t, cb)
    \/ \E c \in Callers, t \in Topics, a \in ArgLists :
          PostBegin(c, t, a, TRUE)
    \/ Dispatch

LiveSpec ==
    /\ Init /\ [][LiveNext]_vars
    /\ \A w \in Workers : WF_vars(WorkerPop(w)) /\ WF_vars(WorkerExec(w))
    /\ \A c \in Callers : WF_vars(PostStep(c)) /\ WF_vars(PostReturn(c))
    /\ \A c \in Callers : SF_vars(SetReady(c))

\* An application that creates an engine, registers observers, posts
\* asynchronously and destroys the engine, at any moment between two calls.
StopInit == Constructed /\ oldSig = NotKept /\ dtor = "alive"

StopNext ==
    \/ dtor = "alive" /\ Quiet
          /\ \E c \in Callers, t \in Topics, cb \in Callbacks :
                add_observer(c, t, cb)
    \/ dtor = "alive"
          /\ \E c \in Callers, t \in Topics, a \in ArgLists :
                PostBegin(c, t, a, TRUE)
    \/ Dispatch
    \/ \E w \in Workers : WorkerWake(w)
    \/ \E c \in Callers : Destroy(c)
    \/ \E c \in Callers : Join(c)

StopSpec == StopInit /\ [][StopNext]_vars

\* An application that only registers, removes and posts synchronously.
\* oldSig records, for each topic, the signature the topic had when its
\* last observer was removed.
SigInit == Constructed /\ oldSig = [t \in Topics |-> ""] /\ dtor = "never"

SigNext ==
    \/ \E c \in Callers, t \in Topics, cb \in Callbacks :
          add_observer(c, t, cb)
    \/ \E c \in Callers, i \in 0 .. MaxId : remove_observer(c, i)
    \/ \E c \in Callers, t \in Topics : remove_all_observers(c, t)
    \/ \E c \in Callers, t \in Topics, a \in ArgLists :
          PostBegin(c, t, a, FALSE)
    \/ \E c \in Callers : PostStep(c)
    \/ \E c \in Callers : PostReturn(c)
    \/ \E c \in Callers : SetReady(c)

SigSpec == SigInit /\ [][SigNext]_vars

\* An application whose main thread registers observers and calls
\* post_and_wait, and another thread posts synchronously while a
\* post_and_wait is going on.  A responder is registered on a topic other
\* than the one it answers on.
WaitInit == Constructed /\ oldSig = NotKept /\ dtor = "never"

WaitNext ==
    \/ \E t \in Topics, cb \in WaitCallbacks :
          /\ cb = responder => t # ReplyTopic
          /\ add_observer("main", t, cb)
    \/ \E A \in Topics, B \in Topics, r \in WaitArgLists, a \in WaitArgLists :
          PwRegister("main", A, B, r, a)
    \/ PwPost("main")
    \/ PwWake("main")
    \/ PwRemove("main")
    \/ pc["main"] # "idle"
          /\ \E t \in Topics, a \in WaitArgLists :
                PostBegin("other", t, a, FALSE)
    \/ PostStep("other")
    \/ PostReturn("other")

WaitSpec == WaitInit /\ [][WaitNext]_vars

\* An application whose callbacks call the engine: its thread registers
\* observers, removes them and posts synchronously.  The callbacks that
\* call the engine are registered on a topic other than ReplyTopic.
ReInit == Constructed /\ oldSig = NotKept /\ dtor = "never"

ReNext ==
    \/ \E t \in Topics, cb \in NestingCallbacks :
          /\ cb # sum_callback => t # ReplyTopic
          /\ add_observer("main", t, cb)
    \/ \E i \in 1 .. MaxId - 1 : remove_observer("main", i)
    \/ \E t \in Topics : PostBegin("main", t, sum_callback.args, FALSE)
    \/ PostStep("main")
    \/ PostReturn("main")

ReSpec == ReInit /\ [][ReNext]_vars

\* An application with a callback that removes an observer, itself or
\* another one, while the synchronous post that invoked it goes on.
SelfInit == Constructed /\ oldSig = NotKept /\ dtor = "never"

SelfNext ==
    \/ \E t \in Topics, cb \in {sum_callback, remover} :
          add_observer("main", t, cb)
    \/ \E i \in 1 .. MaxId - 1 : remove_observer("main", i)
    \/ \E t \in Topics : PostBegin("main", t, sum_callback.args, FALSE)
    \/ PostStep("main")
    \/ PostReturn("main")

SelfSpec == SelfInit /\ [][SelfNext]_vars

\* A worker is inside a callback that waits for the flag `ready`.
BlockedTask ==
    \E w \in Workers : wpc[w] = "exec" /\ func[w].kind = "gated" /\ ~ ready

\* An application that registers a gated callback on BlockingTopic and
\* other callbacks on the other topics, and posts asynchronously; while a
\* callback is blocked in a worker it calls the engine on the other topics.
\* It then sets the flag and lets the pool drain.
BlockingTopic == 1
OtherTopics == Topics \ {BlockingTopic}
OnOtherTopics(i) ==
    i \in DOMAIN m_observers_by_id =>
       m_observers_by_id[i].notification \in OtherTopics

BusyInit == Constructed /\ oldSig = NotKept /\ dtor = "never"

BusyNext ==
    \/ Quiet /\ ~ ready
          /\ \E c \in Callers : add_observer(c, BlockingTopic, critical_section)
    \/ Quiet /\ ~ ready
          /\ \E c \in Callers, a \in ArgLists :
                PostBegin(c, BlockingTopic, a, TRUE)
    \/ BlockedTask
          /\ \E c \in Callers, t \in OtherTopics, cb \in Callbacks :
                add_observer(c, t, cb)
    \/ BlockedTask
          /\ \E c \in Callers, i \in 0 .. MaxId :
                OnOtherTopics(i) /\ remove_observer(c, i)
    \/ BlockedTask
          /\ \E c \in Callers, t \in OtherTopics, a \in ArgLists,
                s \in BOOLEAN : PostBegin(c, t, a, s)
    \/ Dispatch

BusySpec == BusyInit /\ [][BusyNext]_vars

(***************************************************************************)
(* Several engine instances.  Every member of class notifly is a           *)
(* non-static data member, so a member function works on the registry and  *)
(* the allocator of the object it is called on.  m_observers,              *)
(* m_observers_by_id and m_id_manager are the members of the instance the  *)
(* application is calling, another_notifly holds those of the instance it  *)
(* is not calling, and Select changes the object of the next calls.        *)
(***************************************************************************)
Instances == {"default_notifly", "another_notifly"}

\* The topic the test of two instances posts to.
poster == 1

\* The instance whose members the engine variables hold.
This == CHOOSE i \in Instances : i # another_notifly.instance

\* An allocator that would be one static object for all the instances.
id_manager_static(own, current) == current

\* m_id_manager is a data member: an instance has its own.
id_manager_member(own, current) == own

\* The members of the instance the application calls, as a record.
Members ==
    [instance |-> This, m_observers |-> m_observers,
     m_observers_by_id |-> m_observers_by_id,
     m_id_manager |-> m_id_manager, regOrder |-> regOrder]

\* The next calls are made on the other instance.  Between two calls of the
\* test no work of either instance is pending.
Select(c) ==
    /\ pc[c] = "idle" /\ m_mutex = NoThread /\ Quiet /\ inflight = {}
    /\ m_observers' = another_notifly.m_observers
    /\ m_observers_by_id' = another_notifly.m_observers_by_id
    /\ m_id_manager' =
          id_manager_member(another_notifly.m_id_manager, m_id_manager)
    /\ regOrder' = another_notifly.regOrder
    /\ another_notifly' =
          [Members EXCEPT !.m_id_manager =
              id_manager_member(m_id_manager, m_id_manager)]
    /\ last' = Returned("select", 0)
    /\ UNCHANGED << m_mutex, mQueue, mStopping, dtor, wpc, func, pc, post,
                    calls, ready, oldSig, inflight, rerun, pw, rm >>
    /\ UNCHANGED adapter
    /\ UNCHANGED tpVars

InstInit == Constructed /\ oldSig = NotKept /\ dtor = "never"

InstNext ==
    \/ add_observer("main", poster, sum_callback)
    \/ \E i \in 1 .. MaxId - 1 : remove_observer("main", i)
    \/ /\ This = "default_notifly"
       /\ PostBegin("main", poster, sum_callback.args, FALSE)
    \/ PostStep("main")
    \/ PostReturn("main")
    \/ Select("main")

InstSpec == InstInit /\ [][InstNext]_vars

(***************************************************************************)
(* The C adapter.  A handle is a pointer to a wrapper (notifly_instance);  *)
(* the wrapper notifly_default hands out has no engine of its own, and the *)
(* adapter functions called on it go to notifly::default_notifly(), the    *)
(* engine of the variables above.  A handle is nullptr or the number of    *)
(* the allocation that made the wrapper.  Wrappers of notifly_create are   *)
(* not modelled.                                                           *)
(***************************************************************************)
NOTIFLY_INVALID_HANDLE == -5

\* The lambda the adapter registers and the payload it posts: void(void*).
TVoidPtr == [name |-> "Pv", ref |-> "val"]
cpp_callback == [args |-> <<TVoidPtr>>, kind |-> "plain"]

\* The function pointers the application passes as notifly_callback.
NullCallback == "NULL"
CCallbacks == {NullCallback, "simple_callback"}

\* The handles the application can pass: NULL and those it was given.
Handles == {nullptr} \cup adapter.returned

\* The registry and the adapter as they were.
Rejected(c, name) ==
    /\ pc[c] = "idle"
    /\ last' = Returned(name, NOTIFLY_INVALID_HANDLE)
    /\ UNCHANGED << m_observers, m_observers_by_id, m_id_manager, m_mutex,
                    mQueue, mStopping, dtor, wpc, func, pc, post, calls,
                    ready, regOrder, oldSig, inflight, rerun, pw, rm,
                    another_notifly, adapter >>
    /\ UNCHANGED tpVars

\* notifly_default making a new wrapper at every call.
default_missing_always(handle) == TRUE

\* if (g_default_handle == nullptr)
default_missing(handle) == handle = nullptr

\* notifly_default: under g_default_mutex, the wrapper is allocated when
\* there is none yet, and returned.
notifly_default(c) ==
    /\ pc[c] = "idle"
    /\ LET make == default_missing(adapter.g_default_handle)
           handle == IF make THEN adapter.allocated + 1
                             ELSE adapter.g_default_handle
       IN /\ make => adapter.allocated < MaxHandles
          /\ adapter' = [adapter EXCEPT !.g_default_handle = handle,
                                        !.allocated = IF make THEN @ + 1 ELSE @,
                                        !.returned = @ \cup {handle}]
          /\ last' = Returned("notifly_default", handle)
    /\ UNCHANGED << m_observers, m_observers_by_id, m_id_manager, m_mutex,
                    mQueue, mStopping, dtor, wpc, func, pc, post, calls,
                    ready, regOrder, oldSig, inflight, rerun, pw, rm,
                    another_notifly >>
    /\ UNCHANGED tpVars

\* An adapter that calls the engine whatever the handle.
handle_unchecked(handle) == FALSE

\* if (!handle)
handle_invalid(handle) == handle = nullptr

notifly_add_observer(c, handle, notification_id, callback) ==
    IF handle_invalid(handle) \/ callback = NullCallback
    THEN Rejected(c, "notifly_add_observer")
    ELSE /\ pc[c] = "idle" /\ LockFree(c)
         /\ LET r == add_result(notification_id, cpp_callback)
            IN /\ m_observers' = r.m_observers
               /\ m_observers_by_id' = r.m_observers_by_id
               /\ m_id_manager' = r.m_id_manager
               /\ regOrder' = r.regOrder
               /\ adapter' =
                     [adapter EXCEPT !.callbacks =
                         IF r.ret > 0 THEN @ \cup {<<handle, r.ret>>} ELSE @]
               /\ last' = Returned("notifly_add_observer", r.ret)
         /\ UNCHANGED << m_mutex, mQueue, mStopping, dtor, wpc, func, pc,
                         post, calls, ready, oldSig, inflight, rerun, pw, rm,
                         another_notifly >>
         /\ UNCHANGED tpVars

notifly_remove_observer(c, handle, observer_id) ==
    IF handle_invalid(handle)
    THEN Rejected(c, "notifly_remove_observer")
    ELSE /\ pc[c] = "idle" /\ LockFree(c)
         /\ LET r == remove_result(observer_id)
            IN /\ m_observers' = r.m_observers
               /\ m_observers_by_id' = r.m_observers_by_id
               /\ m_id_manager' = r.m_id_manager
               /\ regOrder' = r.regOrder
               /\ oldSig' = r.oldSig
               /\ adapter' =
                     [adapter EXCEPT !.callbacks =
                         IF r.ret = success
                         THEN @ \ {<<handle, observer_id>>} ELSE @]
               /\ last' = Returned("notifly_remove_observer", r.ret)
         /\ UNCHANGED << m_mutex, mQueue, mStopping, dtor, wpc, func, pc,
                         post, calls, ready, inflight, rerun, pw, rm,
                         another_notifly >>
         /\ UNCHANGED tpVars

\* On success the adapter clears the whole callbacks map of the wrapper.
notifly_remove_all_observers(c, handle, notification_id) ==
    IF handle_invalid(handle)
    THEN Rejected(c, "notifly_remove_all_observers")
    ELSE /\ pc[c] = "idle" /\ LockFree(c)
         /\ LET r == remove_all_result(notification_id)
            IN /\ m_observers' = r.m_observers
               /\ m_observers_by_id' = r.m_observers_by_id
               /\ m_id_manager' = r.m_id_manager
               /\ regOrder' = r.regOrder
               /\ oldSig' = r.oldSig
               /\ adapter' =
                     [adapter EXCEPT !.callbacks =
                         IF r.ret > 0
                         THEN {e \in @ : e[1] # handle} ELSE @]
               /\ last' = Returned("notifly_remove_all_observers", r.ret)
         /\ UNCHANGED << m_mutex, mQueue, mStopping, dtor, wpc, func, pc,
                         post, calls, ready, inflight, rerun, pw, rm,
                         another_notifly >>
         /\ UNCHANGED tpVars

\* notifly_post_notification and notifly_post_notification_async.
notifly_post_notification(c, handle, notification_id, a_async) ==
    IF handle_invalid(handle)
    THEN Rejected(c, "notifly_" \o PostName(a_async))
    ELSE PostBegin(c, notification_id, <<TVoidPtr>>, a_async)

\* response_data is the address the answer is to be stored at.
notifly_post_and_wait(c, handle, post_id, wait_id, response_data_ptr) ==
    IF handle_invalid(handle) \/ response_data_ptr = nullptr
    THEN Rejected(c, "notifly_post_and_wait")
    ELSE PwRegister(c, post_id, wait_id, <<TVoidPtr>>, <<TVoidPtr>>)

\* delete handle: nothing happens for a null pointer.  The function returns
\* no value.
notifly_destroy(c, handle) ==
    /\ handle = nullptr
    /\ pc[c] = "idle"
    /\ last' = [op |-> "notifly_destroy", ret |-> 0]
    /\ UNCHANGED << m_observers, m_observers_by_id, m_id_manager, m_mutex,
                    mQueue, mStopping, dtor, wpc, func, pc, post, calls,
                    ready, regOrder, oldSig, inflight, rerun, pw, rm,
                    another_notifly, adapter >>
    /\ UNCHANGED tpVars

\* An application in C: both threads ask for the default handle, the main
\* thread calls the adapter with the handles it was given and with NULL.
\* Its posts through a handle are synchronous.
CInit == Constructed /\ oldSig = NotKept /\ dtor = "never"

CNext ==
    \/ \E c \in Threads : notifly_default(c)
    \/ \E h \in Handles, t \in Topics, cb \in CCallbacks :
          notifly_add_observer("main", h, t, cb)
    \/ \E h \in Handles, i \in 1 .. MaxId - 1 :
          notifly_remove_observer("main", h, i)
    \/ \E h \in Handles, t \in Topics :
          notifly_remove_all_observers("main", h, t)
    \/ \E h \in Handles, t \in Topics, s \in BOOLEAN :
          /\ s => h = nullptr
          /\ notifly_post_notification("main", h, t, s)
    \/ \E h \in Handles, r \in {nullptr, 1} :
          notifly_post_and_wait("main", h, 1, ReplyTopic, r)
    \/ PwPost("main")
    \/ PwWake("main")
    \/ PwRemove("main")
    \/ notifly_destroy("main", nullptr)
    \/ PostStep("main")
    \/ PostReturn("main")

CSpec == CInit /\ [][CNext]_vars

\* An application with two threads: one registers observers and posts
\* synchronously, the other registers, removes and posts synchronously at
\* any moment, and sets the flag the gated callbacks wait for.
ExclInit == Constructed /\ oldSig = NotKept /\ dtor = "never"

ExclNext ==
    \/ \E c \in Threads, t \in Topics, cb \in Callbacks :
          add_observer(c, t, cb)
    \/ \E i \in 1 .. MaxId - 1 : RemoveBegin("other", i)
    \/ RemoveErase("other")
    \/ RemoveFinish("other")
    \/ \E t \in Topics : remove_all_observers("other", t)
    \/ \E c \in Threads, t \in Topics, a \in ArgLists :
          PostBegin(c, t, a, FALSE)
    \/ \E c \in Threads : PostStep(c)
    \/ \E c \in Threads : PostReturn(c)
    \/ SetReady("other")

ExclSpec == ExclInit /\ [][ExclNext]_vars

\* remove_all_observers as a call that may have to wait for the lock: the
\* call is made, and it runs once the lock_guard is acquired.
RemoveAllBegin(c, a_notification) ==
    /\ pc[c] = "idle"
    /\ pc' = [pc EXCEPT ![c] = "rma_lock"]
    /\ post' = [post EXCEPT ![c] = [NoPost EXCEPT !.topic = a_notification]]
    /\ last' = Returned("in_remove_all_observers", 0)
    /\ UNCHANGED << m_observers, m_observers_by_id, m_id_manager, m_mutex,
                    mQueue, mStopping, dtor, wpc, func, calls, ready,
                    regOrder, oldSig, inflight, rerun, pw, rm >>
    /\ UNCHANGED << another_notifly, adapter >>
    /\ UNCHANGED tpVars

RemoveAllLocked(c) ==
    /\ pc[c] = "rma_lock" /\ LockFree(c)
    /\ LET r == remove_all_result(post[c].topic)
       IN /\ m_observers' = r.m_observers
          /\ m_observers_by_id' = r.m_observers_by_id
          /\ m_id_manager' = r.m_id_manager
          /\ regOrder' = r.regOrder
          /\ oldSig' = r.oldSig
          /\ last' = Returned("remove_all_observers", r.ret)
    /\ pc' = [pc EXCEPT ![c] = "idle"]
    /\ post' = [post EXCEPT ![c] = NoPost]
    /\ UNCHANGED << m_mutex, mQueue, mStopping, dtor, wpc, func, calls,
                    ready, inflight, rerun, pw, rm >>
    /\ UNCHANGED << another_notifly, adapter >>
    /\ UNCHANGED tpVars

\* The callbacks of an application whose asynchronous callbacks call the
\* engine again, from the worker that runs them.
DrainCallbacks == {adder, responder}

\* The main thread registers observers and posts asynchronously; the
\* callbacks run in the workers and some of them register an observer or
\* post; another thread removes the first observer or the whole topic.  The
\* main thread registers again when its observer was removed and posts
\* again when the tasks of its last post are done.  The worker, the calls
\* in progress and the waiters for the lock are scheduled fairly.
DrainInit == Constructed /\ oldSig = NotKept /\ dtor = "never"

DrainNext ==
    \/ /\ Quiet /\ Victim \notin DOMAIN m_observers_by_id
       /\ \E cb \in DrainCallbacks : add_observer("main", poster, cb)
    \/ inflight = {} /\ PostBegin("main", poster, sum_callback.args, TRUE)
    \/ PostStep("main")
    \/ PostReturn("main")
    \/ WorkerPop("w1")
    \/ WorkerExec("w1")
    \/ RemoveBegin("other", Victim)
    \/ RemoveErase("other")
    \/ RemoveFinish("other")
    \/ RemoveAllBegin("other", poster)
    \/ RemoveAllLocked("other")

DrainSpec ==
    /\ DrainInit /\ [][DrainNext]_vars
    /\ WF_vars(WorkerPop("w1")) /\ SF_vars(WorkerExec("w1"))
    /\ WF_vars(PostStep("main")) /\ WF_vars(PostReturn("main"))
    /\ SF_vars(RemoveErase("other")) /\ WF_vars(RemoveFinish("other"))
    /\ SF_vars(RemoveAllLocked("other"))

\* Two threads that remove observers, each call in the steps of the code,
\* while the main thread also registers them.  A removal starts while the
\* reuse stack, which grows when an id is released twice, is short.
RaceInit == Constructed /\ oldSig = NotKept /\ dtor = "never"

\* The list nodes in use.  An id released twice is handed out twice, so the
\* registrations are counted by their nodes.
NodesInUse ==
    UNION {{m_observers[t][i].node : i \in DOMAIN m_observers[t]} :
              t \in DOMAIN m_observers}

RaceNext ==
    \/ /\ NodesInUse # Nodes
       /\ add_observer("main", 1, sum_callback)
    \/ /\ Len(m_id_manager.m_released_ids) < MaxId - 1
       /\ \E c \in Threads, i \in 1 .. MaxId - 1 : RemoveBegin(c, i)
    \/ \E c \in Threads : RemoveErase(c)
    \/ \E c \in Threads : RemoveFinish(c)

RaceSpec == RaceInit /\ [][RaceNext]_vars

\* ------------------------------------------------------------ properties
\* The ids of the observers registered on some topic.
RegIds == UNION {{m_observers[t][i].id : i \in DOMAIN m_observers[t]} :
                 t \in DOMAIN m_observers}

\* The tasks that are queued or being executed.
Pending == {mQueue[i] : i \in DOMAIN mQueue}
              \cup {func[w] : w \in {v \in Workers : wpc[v] = "exec"}}

\* Some / every observer of topic t has a signature other than that of args.
SomeDiffers(t, args) ==
    \E i \in DOMAIN m_observers[t] : m_observers[t][i].types # stringTypes(args)
AllAgree(t, args) ==
    \A i \in DOMAIN m_observers[t] : m_observers[t][i].types = stringTypes(args)

\* C1: a post, synchronous or asynchronous, on a topic that has observers
\* is refused with payload_type_not_match when its signature differs from
\* the topic's, and then dispatches nothing (the call is over, nothing is
\* queued); when the signature is the topic's the dispatch starts, and the
\* call returns the number of observers listed after it dispatched exactly
\* that many callbacks, one per listed observer.
C1_TypeGate ==
    [][\A c \in Callers :
         /\ \A t \in Topics, a \in ArgLists, s \in BOOLEAN :
               (PostBegin(c, t, a, s) /\ t \in DOMAIN m_observers) =>
                  /\ SomeDiffers(t, a) =>
                        /\ last' = Returned(PostName(s), payload_type_not_match)
                        /\ pc'[c] = "idle"
                        /\ UNCHANGED << mQueue, calls, inflight, wpc >>
                  /\ AllAgree(t, a) =>
                        /\ pc'[c] = "post"
                        /\ post'[c].topic = t /\ post'[c].async = s
                        /\ calls' = << >>
         /\ PostReturn(c) =>
               /\ last'.op = PostName(post[c].async)
               /\ last'.ret = Len(m_observers[post[c].topic])
               /\ Len(calls) = last'.ret
               /\ calls = Ids(m_observers[post[c].topic])
         /\ (PostStep(c) /\ post[c].async) =>
               /\ Len(mQueue') = Len(mQueue) + 1
               /\ Cardinality(inflight') = Cardinality(inflight) + 1
      ]_vars

\* A post with the wrong signature on a topic with two observers was refused.
C1_Witness ==
    /\ last = Returned("post_notification_async", payload_type_not_match)
    /\ \E t \in DOMAIN m_observers : Len(m_observers[t]) = 2

\* C2: add_observer on a topic that has observers, with a callback whose
\* signature differs from theirs, returns payload_type_not_match and leaves
\* the topic map, the id index and the id manager as they were.
C2_SignaturePinning ==
    [][\A c \in Callers, t \in Topics, cb \in Callbacks :
          (add_observer(c, t, cb) /\ t \in DOMAIN m_observers
              /\ SomeDiffers(t, cb.args)) =>
             /\ last' = Returned("add_observer", payload_type_not_match)
             /\ UNCHANGED << m_observers, m_observers_by_id, m_id_manager >>
      ]_vars

\* An add_observer was refused while an id was waiting on the reuse stack.
C2_Witness ==
    /\ last = Returned("add_observer", payload_type_not_match)
    /\ m_id_manager.m_released_ids # << >>
    /\ m_observers # << >>

\* C3: no two registered observers have the same id, and the id a
\* successful add_observer returns is the id of exactly one registered
\* observer, the new one.
C3_UniqueIds ==
    /\ \A t, u \in DOMAIN m_observers :
          \A i \in DOMAIN m_observers[t], j \in DOMAIN m_observers[u] :
             m_observers[t][i].id = m_observers[u][j].id => (t = u /\ i = j)
    /\ (last.op = "add_observer" /\ last.ret > 0) =>
          Cardinality({<< t, i >> \in Topics \X Nodes :
                          /\ t \in DOMAIN m_observers
                          /\ i \in DOMAIN m_observers[t]
                          /\ m_observers[t][i].id = last.ret}) = 1

\* Two observers are registered, the later one with a reused id.
C3_Witness ==
    /\ last = Returned("add_observer", 1)
    /\ 2 \in RegIds
    /\ m_id_manager.m_next_id = 3

\* C4: the id add_observer returns is not the id of a task that is still
\* queued or being executed.
C4_NoReuseWhileTaskPending ==
    (last.op = "add_observer" /\ last.ret > 0) =>
       \A task \in Pending : task.id # last.ret

\* C5: remove_observer on the id of a registered observer (an id
\* add_observer returned and that was not removed since) returns success
\* and unregisters it; remove_observer on an id that is not registered, as
\* after that removal, returns observer_not_found; and the id a successful
\* add_observer returns is registered.
C5_RoundTrip ==
    [][\A c \in Callers :
         /\ \A i \in 0 .. MaxId :
               remove_observer(c, i) =>
                  /\ i \in RegIds =>
                        /\ last' = Returned("remove_observer", success)
                        /\ i \notin RegIds'
                  /\ i \notin RegIds =>
                        last' = Returned("remove_observer", observer_not_found)
         /\ \A t \in Topics, cb \in Callbacks :
               (add_observer(c, t, cb) /\ last'.ret > 0) => last'.ret \in RegIds'
      ]_vars

\* The second removal of an id found it gone, another observer remaining.
C5_Witness ==
    /\ last = Returned("remove_observer", observer_not_found)
    /\ m_id_manager.m_released_ids # << >>
    /\ RegIds # {}

\* C6: a post, synchronous or asynchronous, on a topic with no registered
\* observer (none was registered, or all were removed) returns
\* notification_not_found whatever its arguments, dispatches nothing and
\* creates no topic entry.
C6_NoTopic ==
    [][\A c \in Callers, t \in Topics, a \in ArgLists, s \in BOOLEAN :
          (PostBegin(c, t, a, s) /\ regOrder[t] = << >>) =>
             /\ last' = Returned(PostName(s), notification_not_found)
             /\ pc'[c] = "idle"
             /\ t \notin DOMAIN m_observers'
             /\ UNCHANGED << m_observers, mQueue, calls, inflight, wpc >>
      ]_vars

\* An asynchronous post found no topic after the topic's observers were
\* removed.
C6_Witness ==
    /\ last = Returned("post_notification_async", notification_not_found)
    /\ m_id_manager.m_released_ids # << >>

\* C7: a call that returns payload_type_not_match, notification_not_found
\* or observer_not_found leaves the topic map, the id index and the id
\* manager as they were; the reuse stack only ever holds ids that were
\* issued, so removing an unregistered id does not make it available.
C7_ErrorFrame ==
    /\ [](\A k \in DOMAIN m_id_manager.m_released_ids :
             /\ m_id_manager.m_released_ids[k] >= 1
             /\ m_id_manager.m_released_ids[k] < m_id_manager.m_next_id)
    /\ [][(/\ last' # last
           /\ last'.ret \in {observer_not_found, notification_not_found,
                             payload_type_not_match}) =>
             UNCHANGED << m_observers, m_observers_by_id, m_id_manager >>
         ]_vars

\* remove_observer did not find an id, with observers registered and ids
\* on the reuse stack.
C7_Witness ==
    /\ last = Returned("remove_observer", observer_not_found)
    /\ Len(m_id_manager.m_released_ids) = 1
    /\ Cardinality(RegIds) = 1

\* C8: a synchronous post returns after it invoked, one after the other,
\* the callbacks of the topic's observers in the order of their
\* registration; the observers of a topic are listed in that order
\* whatever was removed.
C8_RegistrationOrder ==
    /\ [](\A t \in Topics :
             IF t \in DOMAIN m_observers
             THEN Ids(m_observers[t]) = regOrder[t]
             ELSE regOrder[t] = << >>)
    /\ [][\A c \in Callers :
            /\ (PostReturn(c) /\ ~ post[c].async) =>
                  /\ calls = regOrder[post[c].topic]
                  /\ last'.ret = Len(calls)
            /\ (PostStep(c) /\ ~ post[c].async) =>
                  /\ Len(calls') = Len(calls) + 1
                  /\ calls' = SubSeq(regOrder[post[c].topic], 1, Len(calls'))
         ]_vars

\* A synchronous post has invoked observer 2 and then observer 1, which
\* was registered again after its removal.
C8_Witness ==
    /\ pc["main"] = "post" /\ ~ post["main"].async
    /\ post["main"].cursor = End
    /\ calls = << 2, 1 >>

\* C9: an asynchronous post never waits for the callbacks it dispatched:
\* at every point of the call its next step, pushing the next task or
\* returning, can be taken, whatever is queued or running.
C9_AsyncDoesNotWait ==
    \A c \in Callers :
       (pc[c] = "post" /\ post[c].async) =>
          ENABLED (PostStep(c) \/ PostReturn(c))

\* The asynchronous post has returned the count and a callback it
\* dispatched is blocked until the application sets the flag.
C9_Witness ==
    /\ last = Returned("post_notification_async", 2)
    /\ ~ ready
    /\ \E w \in Workers : wpc[w] = "exec" /\ func[w].kind = "gated"
    /\ \A t \in inflight : t.kind = "gated"
    /\ Cardinality(inflight) = 2

\* The tasks a post can push.
Tasks == [post : 1 .. MaxPosts, id : 1 .. MaxId, kind : {"plain", "gated"},
          notification : Topics]

\* The number of places, in the queue or in a worker, that hold the task.
Holders(task) ==
    Cardinality({i \in DOMAIN mQueue : mQueue[i] = task})
       + Cardinality({w \in Workers : wpc[w] = "exec" /\ func[w] = task})

\* C10: every task an asynchronous post pushed is executed, and once: it
\* is held by the queue or by one worker until it is executed, no task is
\* executed that is not waiting for its execution, the post pushes one
\* task per observer, and every task in flight is eventually executed.
C10_EveryTaskRunsOnce ==
    /\ [](~ rerun)
    /\ [](\A task \in Tasks :
             Holders(task) = IF task \in inflight THEN 1 ELSE 0)
    /\ [][\A c \in Callers :
            (PostReturn(c) /\ post[c].async) =>
               /\ calls = regOrder[post[c].topic]
               /\ last'.ret = Len(calls)
         ]_vars
    /\ \A task \in Tasks : (task \in inflight) ~> (task \notin inflight)

\* Both tasks of a post to two observers were executed after the post
\* returned.
C10_Witness ==
    /\ last = Returned("post_notification_async", 2)
    /\ inflight = {}
    /\ Quiet
    /\ ~ rerun

\* C11: when remove_observer or remove_all_observers has returned, no task
\* dispatched to an observer it removed is still queued or being executed.
C11_RemoveWaitsForTasks ==
    [][\A c \in Callers :
         /\ \A i \in 0 .. MaxId :
               (remove_observer(c, i) /\ last'.ret = success) =>
                  \A task \in Pending' : task.id # i
         /\ \A t \in Topics :
               (remove_all_observers(c, t) /\ t \in DOMAIN m_observers) =>
                  \A task \in Pending' :
                     \A k \in DOMAIN m_observers[t] :
                        task.id # m_observers[t][k].id
      ]_vars

\* C13: remove_all_observers on a topic without observers returns 0 and
\* changes nothing; on a topic with n observers it returns n, the topic is
\* gone (every post on it finds no topic), none of the n ids is registered
\* any more (remove_observer would not find it) and the n ids are on the
\* reuse stack, above what was there.
C13_RemoveAll ==
    [][\A c \in Callers, t \in Topics :
          remove_all_observers(c, t) =>
             IF t \notin DOMAIN m_observers
             THEN /\ last' = Returned("remove_all_observers", 0)
                  /\ UNCHANGED << m_observers, m_observers_by_id, m_id_manager >>
             ELSE LET ids == Ids(m_observers[t])
                  IN /\ last' = Returned("remove_all_observers", Len(ids))
                     /\ Len(ids) >= 1
                     /\ t \notin DOMAIN m_observers'
                     /\ \A a \in ArgLists :
                           post_check(t, stringTypes(a))' = notification_not_found
                     /\ \A k \in DOMAIN ids :
                           /\ ids[k] \notin DOMAIN m_observers_by_id'
                           /\ ids[k] \notin RegIds'
                           /\ ids[k] \notin m_id_manager'.m_ids
                     /\ m_id_manager'.m_released_ids =
                           m_id_manager.m_released_ids \o ids
                     /\ \A u \in DOMAIN m_observers \ {t} :
                           u \in DOMAIN m_observers'
                              /\ m_observers'[u] = m_observers[u]
      ]_vars

\* remove_all_observers removed the two observers of a topic.
C13_Witness ==
    /\ last = Returned("remove_all_observers", 2)
    /\ Len(m_id_manager.m_released_ids) = 2
    /\ m_observers = << >>

\* C15: the observers registered on a topic all have the same signature,
\* and a topic that is present has at least one observer, so the signature
\* of the first listed observer is the topic's.
C15_OneSignaturePerTopic ==
    \A t \in DOMAIN m_observers :
       /\ m_observers[t] # << >>
       /\ \A i \in DOMAIN m_observers[t] :
             m_observers[t][i].types = Front(m_observers[t]).types

\* The first observer of a topic was removed and registered again: the
\* list is headed by the second one.
C15_Witness ==
    \E t \in DOMAIN m_observers : Ids(m_observers[t]) = << 2, 1 >>

\* C14: the entry of a topic goes with its last observer, so a topic
\* without observers has no signature: add_observer then succeeds on it
\* with any signature (as long as an id is left) and that signature becomes
\* the topic's; from then on a post with another signature, the old one
\* included, is refused.
C14_SignatureCleared ==
    /\ [](\A t \in Topics : t \in DOMAIN m_observers <=> regOrder[t] # << >>)
    /\ [][\A c \in Callers, t \in Topics, cb \in Callbacks :
            (add_observer(c, t, cb) /\ regOrder[t] = << >>
                /\ get_unique_id(m_id_manager).id # -1) =>
               /\ last'.op = "add_observer" /\ last'.ret > 0
               /\ t \in DOMAIN m_observers'
               /\ Front(m_observers'[t]).types = stringTypes(cb.args)
               /\ \A a \in ArgLists :
                     post_check(t, stringTypes(a))' =
                        IF stringTypes(a) = stringTypes(cb.args)
                        THEN success ELSE payload_type_not_match
               /\ oldSig[t] \notin {"", stringTypes(cb.args)} =>
                     post_check(t, oldSig[t])' = payload_type_not_match
         ]_vars

\* A topic whose last observer was removed has an observer again, with
\* another signature than before, and a post with the old signature was
\* refused.
C14_Witness ==
    /\ last = Returned("post_notification", payload_type_not_match)
    /\ \E t \in DOMAIN m_observers :
          /\ oldSig[t] # ""
          /\ Front(m_observers[t]).types # oldSig[t]
          /\ \A u \in Topics \ {t} : u \notin DOMAIN m_observers /\ oldSig[u] = ""

\* C12: when the destructor of the engine has returned, every task that
\* was queued or being executed when it was called has been executed, and
\* no worker is executing or will execute a callback.
C12_TeardownCompletesTasks ==
    dtor = "destroyed" =>
       /\ inflight = {}
       /\ \A w \in Workers : wpc[w] = "done"

\* A step by which the wait of post_and_wait ends, and a step by which
\* post_and_wait returns after its wait.
WaitEnds == pc["main"] = "pw_wait" /\ pc'["main"] = "pw_remove"
WaitReturns == pc["main"] = "pw_remove" /\ pc'["main"] = "idle"

\* C16: when a notification was delivered on the wait topic before the
\* wait of post_and_wait ended (from a responder inside the post, or from
\* another thread afterwards), the wait ends fulfilled, post_and_wait
\* returns Success and its result, also as the C interface hands it out, is
\* the payload of that notification.
C16_ResponseDelivered ==
    [][ /\ (WaitEnds /\ pw.heard > 0) => pw'.woke = "fulfilled"
        /\ (WaitReturns /\ pw.woke = "fulfilled") =>
              /\ last' = Returned("post_and_wait", success)
              /\ pw'.result = pw.first
              /\ response_data(last'.ret, pw'.result) = pw.first ]_vars

\* post_and_wait returned Success with the answer of the responder.
C16_Witness ==
    /\ last = Returned("post_and_wait", success)
    /\ pw.result = Reply(PayloadOf("main"))

\* C17: when the post of post_and_wait succeeded and no notification was
\* delivered on the wait topic before the wait ended, the wait ends by the
\* timeout and post_and_wait returns Timeout, after the observers of the
\* post topic were invoked, without a response payload: the result is not
\* written and the C interface hands out NULL, also when a notification
\* arrives after the timeout.
C17_Timeout ==
    [][ /\ (WaitEnds /\ pw.heard = 0) => pw'.woke = "timeout"
        /\ (WaitReturns /\ pw.woke = "timeout") =>
              /\ last' = Returned("post_and_wait", timeout)
              /\ pw.invoked > 0
              /\ pw'.result = Unset
              /\ response_data(last'.ret, pw'.result) = Unset ]_vars

\* post_and_wait returned Timeout.
C17_Witness == last = Returned("post_and_wait", timeout)

\* A step by which post_and_wait returns after it registered its temporary
\* observer: from the post that failed, or after the wait.
PwReturns == pc["main"] \in {"pw_post", "pw_remove"} /\ pc'["main"] = "idle"

\* The registry without the observer tmp.
WithoutTemp(observers, tmp) ==
    LET kept(t) == SelectSeq(observers[t], LAMBDA o : o.id # tmp)
    IN [t \in {x \in DOMAIN observers : kept(x) # << >>} |-> kept(t)]

\* C18: whatever post_and_wait returns (Success, Timeout, the error of the
\* post), when it returns its temporary observer is in neither the list of
\* the wait topic nor the index, its id is free and was released once, and
\* the other observers are registered as they were; outside post_and_wait
\* no temporary observer is registered.
C18_TemporaryObserverRemoved ==
    [][ /\ PwReturns =>
              /\ m_observers' = WithoutTemp(m_observers, pw.tmp)
              /\ pw.tmp \notin DOMAIN m_observers_by_id'
              /\ pw.tmp \notin m_id_manager'.m_ids
              /\ Cardinality({i \in DOMAIN m_id_manager'.m_released_ids :
                                m_id_manager'.m_released_ids[i] = pw.tmp}) = 1
        /\ pc'["main"] = "idle" =>
              \A t \in DOMAIN m_observers' :
                 \A i \in DOMAIN m_observers'[t] :
                    m_observers'[t][i].kind # "temp" ]_vars

\* post_and_wait returned the error of its post, with an observer left on
\* the post topic and the id of the temporary observer released.
C18_Witness ==
    /\ last = Returned("post_and_wait", payload_type_not_match)
    /\ m_observers # << >>
    /\ m_id_manager.m_released_ids # << >>

C20_ErrorsPropagate ==
    [][ /\ (pc["main"] = "pw_post" /\ pc'["main"] # "pw_post") =>
              /\ pw.post_topic \notin DOMAIN m_observers =>
                    /\ pc'["main"] = "idle"
                    /\ last' = Returned("post_and_wait",
                                        notification_not_found)
              /\ (/\ pw.post_topic \in DOMAIN m_observers
                  /\ Front(m_observers[pw.post_topic]).types
                        # stringTypes(pw.args)) =>
                    /\ pc'["main"] = "idle"
                    /\ last' = Returned("post_and_wait",
                                        payload_type_not_match)
        /\ \A A \in Topics, B \in Topics, r \in WaitArgLists,
              a \in WaitArgLists :
              PwRegister("main", A, B, r, a) =>
                 LET conflict == /\ B \in DOMAIN m_observers
                                 /\ Front(m_observers[B]).types
                                       # stringTypes(r)
                     no_id == /\ m_id_manager.m_released_ids = << >>
                              /\ m_id_manager.m_next_id = MaxId
                     error == IF conflict THEN payload_type_not_match
                              ELSE no_more_observer_ids
                 IN (conflict \/ no_id) =>
                       /\ last' = Returned("post_and_wait", error)
                       /\ pc'["main"] = "idle" /\ pw' = NoWait
                       /\ UNCHANGED << m_observers, m_observers_by_id,
                                       m_id_manager, calls >> ]_vars

\* post_and_wait returned NotificationNotFound: nothing observes the post
\* topic.
C20_Witness == last = Returned("post_and_wait", notification_not_found)

\* The error results of the engine.
Errors == {observer_not_found, notification_not_found,
           payload_type_not_match, no_more_observer_ids, timeout}

\* C21: every topic of the registry has at least one observer; a post that
\* returned returned a count of at least 1 or an error, add_observer
\* returned an id of at least 1 or an error, and every error is negative.
C21_NoEmptyTopic ==
    /\ \A t \in DOMAIN m_observers : m_observers[t] # << >>
    /\ last.op \in {"post_notification", "post_notification_async"} =>
          \/ last.ret >= 1
          \/ last.ret \in {notification_not_found, payload_type_not_match}
    /\ last.op = "add_observer" =>
          \/ last.ret >= 1
          \/ last.ret \in {payload_type_not_match, no_more_observer_ids}
    /\ \A e \in Errors : e < 0

\* A post returned its count on a registry a topic of which had been
\* emptied and erased.
C21_Witness ==
    /\ last.op = "post_notification" /\ last.ret >= 1
    /\ m_id_manager.m_released_ids # << >>
    /\ Cardinality(DOMAIN m_observers) = 1

\* C22: with the counter at its maximum, an add_observer that passes the
\* signature check returns NoMoreObserverIds when no id was released,
\* registers nothing and leaves the registry as it was, without an entry
\* for a new topic; when an id was released it registers the observer and
\* returns the id released last.
C22_Exhaustion ==
    [][ \A c \in Callers, t \in Topics, cb \in Callbacks :
           (/\ add_observer(c, t, cb)
            /\ m_id_manager.m_next_id = MaxId
            /\ t \in DOMAIN m_observers =>
                  Front(m_observers[t]).types = stringTypes(cb.args)) =>
              LET released == m_id_manager.m_released_ids
              IN IF released = << >>
                 THEN /\ last' = Returned("add_observer",
                                          no_more_observer_ids)
                      /\ UNCHANGED << m_observers, m_observers_by_id,
                                      m_id_manager >>
                 ELSE /\ last' = Returned("add_observer",
                                          released[Len(released)])
                      /\ last'.ret \in DOMAIN m_observers_by_id'
                      /\ \E i \in DOMAIN m_observers'[t] :
                            m_observers'[t][i].id = last'.ret ]_vars

\* After NoMoreObserverIds an observer was removed and the next
\* add_observer returned its id: the counter is at its maximum, an
\* add_observer just returned an id and no id is on the stack.
C22_Witness ==
    /\ m_id_manager.m_next_id = MaxId
    /\ last.op = "add_observer" /\ last.ret >= 1
    /\ m_id_manager.m_released_ids = << >>
    /\ Cardinality(DOMAIN m_observers_by_id) = MaxId - 1
    /\ regOrder[1] # << >> /\ Front(regOrder[1]) > 1

\* C23: a callback of a synchronous post may call add_observer,
\* remove_observer or post_notification: the dispatching thread is never
\* kept from its next callback, the process does not crash, and the outer
\* post returns the number of the observers of its topic.
C23_NestedCallsComplete ==
    [][ /\ pc'["main"] # "crashed"
        /\ (pc'["main"] = "post" /\ post'["main"].cursor # End) =>
              \E i \in DOMAIN m_observers'[post'["main"].topic] :
                 m_observers'[post'["main"].topic][i].node
                    = post'["main"].cursor
        /\ (pc["main"] = "post" /\ pc'["main"] = "idle") =>
              /\ post["main"].topic \in DOMAIN m_observers
              /\ last' = Returned("post_notification",
                                  Len(m_observers[post["main"].topic])) ]_vars

\* The synchronous post of thread c is inside its loop: a callback returned
\* and another is to come, or the callback it is at waits for the flag
\* `ready` and cannot have returned.
InsideSyncPost(c) ==
    /\ pc[c] = "post" /\ ~ post[c].async /\ post[c].cursor # End
    /\ \/ calls # << >>
       \/ /\ ~ ready
          /\ Deref(m_observers[post[c].topic], post[c].cursor).kind = "gated"

\* C24: while the synchronous post of the thread "main" is inside its loop,
\* a step of another thread changes neither the lists, nor the index, nor
\* the ids, and invokes no callback: what the other threads call takes
\* effect before the first callback of the post or after its last one.
C24_SyncPostExcludes ==
    [][ (/\ InsideSyncPost("main")
         /\ pc'["main"] = "post" /\ post'["main"] = post["main"]) =>
           UNCHANGED << m_observers, m_observers_by_id, m_id_manager,
                        calls >> ]_vars

OwnIds(e) ==
    /\ DOMAIN e.m_observers_by_id = e.m_id_manager.m_ids
    /\ e.m_id_manager.m_ids \cup {e.m_id_manager.m_released_ids[k] :
              k \in DOMAIN e.m_id_manager.m_released_ids} =
          1 .. e.m_id_manager.m_next_id - 1

\* C26: engine instances are independent.  Each instance has its own
\* registry and its own id allocator: a call on one instance leaves the
\* observers, topics and ids of the other as they were, turning to the other
\* instance finds its members as the last call on it left them, and the
\* first add_observer on a fresh instance returns 1 whatever ids the other
\* instance has issued.
C26_InstancesIndependent ==
    /\ [](OwnIds(Members) /\ OwnIds(another_notifly))
    /\ [][ /\ another_notifly'.instance = another_notifly.instance =>
                another_notifly' = another_notifly
           /\ another_notifly'.instance # another_notifly.instance =>
                /\ another_notifly' = Members
                /\ Members' = another_notifly
           /\ (/\ add_observer("main", poster, sum_callback)
               /\ Members = Fresh(This)
               /\ last'.ret \notin Errors) => last'.ret = 1 ]_vars

\* The second instance returned id 1 while the default instance had
\* observers registered under ids of its own.
C26_Witness ==
    /\ This = "another_notifly"
    /\ last = Returned("add_observer", 1)
    /\ DOMAIN another_notifly.m_observers_by_id # {}
    /\ 1 \in DOMAIN another_notifly.m_observers_by_id

\* What an adapter call that is rejected must leave alone: the registry,
\* the allocator, the callbacks invoked, the tasks and the adapter itself.
AdapterIdle ==
    UNCHANGED << m_observers, m_observers_by_id, m_id_manager, calls, mQueue,
                 func, inflight, pw, adapter, pc, m_mutex >>

\* C27: every adapter function that returns a result code returns
\* NOTIFLY_INVALID_HANDLE when its handle is NULL, and so do
\* notifly_add_observer with a NULL callback and notifly_post_and_wait with
\* a NULL response pointer; none of these calls, nor notifly_destroy(NULL),
\* invokes a callback or changes the state of the engine.
C27_NullRejected ==
    [][ /\ \A h \in Handles, t \in Topics :
              (\/ \E cb \in CCallbacks :
                     notifly_add_observer("main", nullptr, t, cb)
               \/ notifly_add_observer("main", h, t, NullCallback)
               \/ \E i \in 1 .. MaxId - 1 :
                     notifly_remove_observer("main", nullptr, i)
               \/ notifly_remove_all_observers("main", nullptr, t)
               \/ \E s \in BOOLEAN :
                     notifly_post_notification("main", nullptr, t, s)
               \/ \E r \in {nullptr, 1} :
                     notifly_post_and_wait("main", nullptr, t, ReplyTopic, r)
               \/ notifly_post_and_wait("main", h, t, ReplyTopic, nullptr))
                 => /\ last'.ret = NOTIFLY_INVALID_HANDLE
                    /\ AdapterIdle
        /\ notifly_destroy("main", nullptr) => AdapterIdle ]_vars

\* A call with a NULL handle was rejected while an observer was registered
\* through the default handle; no callback was invoked.
C27_Witness ==
    /\ last = Returned("notifly_post_notification", NOTIFLY_INVALID_HANDLE)
    /\ DOMAIN m_observers = Topics
    /\ adapter.callbacks # {}
    /\ calls = << >>

\* C28: notifly_default returns the same handle on every call and from
\* every thread, the wrapper is allocated once, and every handle it returned
\* works on the one default engine: a post through any of them visits the
\* observers that were added through any of them.
C28_DefaultHandleOnce ==
    /\ [](/\ adapter.allocated <= 1
          /\ Cardinality(adapter.returned) <= 1
          /\ adapter.returned # {} =>
                adapter.returned = {adapter.g_default_handle}
          /\ {e[2] : e \in adapter.callbacks} \subseteq
                DOMAIN m_observers_by_id)
    /\ [][ /\ \A c \in Threads :
                 notifly_default(c) =>
                    /\ last'.ret # nullptr
                    /\ adapter.g_default_handle # nullptr =>
                          /\ last'.ret = adapter.g_default_handle
                          /\ adapter'.allocated = adapter.allocated
           /\ \A h \in adapter.returned, t \in Topics :
                 (/\ notifly_post_notification("main", h, t, FALSE)
                  /\ \E e \in adapter.callbacks :
                        /\ e[2] \in DOMAIN m_observers_by_id
                        /\ m_observers_by_id[e[2]].notification = t) =>
                    /\ pc'["main"] = "post"
                    /\ post'["main"].cursor = Begin(m_observers[t]) ]_vars

\* The wrapper was allocated once, and a post through the default handle
\* notified an observer added through it.
C28_Witness ==
    /\ adapter.allocated = 1
    /\ adapter.returned = {1}
    /\ adapter.callbacks # {}
    /\ last = Returned("post_notification", 1)

\* C29: the allocator hands out the id released last while released ids
\* are left, and otherwise the value of a counter that starts at 1 and never
\* decreases.  A successful add_observer returns the counter and advances it
\* by one when no id is released, and otherwise takes the id released last
\* and leaves the counter and the older released ids as they are; after a
\* removal the id just released is the one handed out next.
C29_LifoIds ==
    /\ [](m_id_manager.m_next_id >= 1)
    /\ [][ /\ m_id_manager'.m_next_id >= m_id_manager.m_next_id
           /\ \A c \in Callers, t \in Topics, cb \in Callbacks :
                 (add_observer(c, t, cb) /\ last'.ret \notin Errors) =>
                    IF m_id_manager.m_released_ids = << >>
                    THEN /\ last'.ret = m_id_manager.m_next_id
                         /\ m_id_manager'.m_next_id = last'.ret + 1
                         /\ m_id_manager'.m_released_ids = << >>
                    ELSE /\ m_id_manager'.m_next_id = m_id_manager.m_next_id
                         /\ m_id_manager.m_released_ids =
                               Append(m_id_manager'.m_released_ids, last'.ret)
           /\ \A c \in Callers, i \in 1 .. MaxId :
                 (remove_observer(c, i) /\ last'.ret = success) =>
                    /\ get_unique_id(m_id_manager').id = i
                    /\ get_unique_id(m_id_manager').m.m_released_ids =
                          m_id_manager.m_released_ids
           /\ \A c \in Callers, t \in Topics :
                 (remove_all_observers(c, t) /\ last'.ret > 0) =>
                    get_unique_id(m_id_manager').id =
                       m_observers[t][Len(m_observers[t])].id ]_vars

\* add, add, remove(1), add: the third registration returned 1 again while
\* observer 2 stayed registered.
C29_Witness ==
    /\ last = Returned("add_observer", 1)
    /\ m_id_manager.m_next_id = 3
    /\ DOMAIN m_observers_by_id = {1, 2}

\* C30: the id index and the topic lists agree in every reachable state.
\* Every key of the index has an entry that names a topic with a list and
\* an iterator to the observer with that id in that list; every observer in
\* a list has its id in the index, with an entry that names that list and
\* that node; and no id is in two places.
C30_IndexAgreesWithLists ==
    /\ \A id \in DOMAIN m_observers_by_id :
          LET e == m_observers_by_id[id]
          IN /\ e.notification \in DOMAIN m_observers
             /\ \E k \in DOMAIN m_observers[e.notification] :
                   /\ m_observers[e.notification][k].node = e.iterator
                   /\ m_observers[e.notification][k].id = id
    /\ \A t \in DOMAIN m_observers :
          \A k \in DOMAIN m_observers[t] :
             LET id == m_observers[t][k].id
             IN /\ id \in DOMAIN m_observers_by_id
                /\ m_observers_by_id[id].notification = t
                /\ m_observers_by_id[id].iterator = m_observers[t][k].node
    /\ \A t, u \in DOMAIN m_observers :
          \A i \in DOMAIN m_observers[t], j \in DOMAIN m_observers[u] :
             m_observers[t][i].id = m_observers[u][j].id => (t = u /\ i = j)

\* The ids on the reuse stack.
ReleasedIds ==
    {m_id_manager.m_released_ids[k] : k \in DOMAIN m_id_manager.m_released_ids}

\* C31: the ids on the reuse stack are pairwise distinct, none of them is
\* the id of a registered observer or of an asynchronous task that is queued
\* or being executed, and every id below the counter is either registered or
\* on the reuse stack.
C31_IdsAccounted ==
    /\ \A j, k \in DOMAIN m_id_manager.m_released_ids :
          m_id_manager.m_released_ids[j] = m_id_manager.m_released_ids[k]
             => j = k
    /\ ReleasedIds \cap RegIds = {}
    /\ \A task \in Pending : task.id \notin ReleasedIds
    /\ ReleasedIds \cup RegIds = 1 .. m_id_manager.m_next_id - 1

\* C32: of two concurrent remove_observer calls on the same registered id
\* one returns success and the other observer_not_found.  A call erases
\* from a list only an observer that is in it, a call that returns success
\* finds the id still in the index and not released, and no id is on the
\* reuse stack twice.
C32_OneRemovalWins ==
    /\ [](\A j, k \in DOMAIN m_id_manager.m_released_ids :
             j # k => m_id_manager.m_released_ids[j] #
                         m_id_manager.m_released_ids[k])
    /\ [][\A c \in Threads :
            /\ (RemoveErase(c) /\ pc'[c] = "rm_tail") => rm[c] \in RegIds
            /\ RemoveFinish(c) =>
                  /\ rm[c] \in DOMAIN m_observers_by_id
                  /\ rm[c] \notin ReleasedIds
            /\ pc'[c] # "crashed" ]_vars

Invoked == {calls[k] : k \in DOMAIN calls}

\* C34: when a callback of a synchronous post removes its own observer or
\* another observer of the topic, the post invokes only observers that are
\* registered and that it has not invoked yet, it then stands on an
\* observer of the list or at its end, it does not crash, and when it
\* returns every observer left in the list has been invoked.
C34_RemovalDuringDispatch ==
    [][ /\ PostStep("main") =>
              LET topic == post["main"].topic
                  id == calls'[Len(calls')]
              IN /\ id \in RegIds
                 /\ id \notin Invoked
                 /\ pc'["main"] = "post"
                 /\ IF topic \in DOMAIN m_observers'
                    THEN \/ post'["main"].cursor = End
                         \/ \E k \in DOMAIN m_observers'[topic] :
                               m_observers'[topic][k].node
                                  = post'["main"].cursor
                    ELSE post'["main"].cursor = End
        /\ PostReturn("main") =>
              /\ post["main"].topic \in DOMAIN m_observers =>
                    \A k \in DOMAIN m_observers[post["main"].topic] :
                       m_observers[post["main"].topic][k].id \in Invoked
              /\ last'.ret >= 0 ]_vars

\* C38: in PartyThreads::Pool no callable runs twice: when stop() wakes a
\* worker that popped nothing, the worker calls the task it called before
\* its wait, that call runs no callback (the engine, the flag of the gated
\* callbacks and the tasks in flight are as before) and the worker ends.
C38_CallableRunsOnce ==
    /\ [](~ rerun)
    /\ [][\A w \in Workers :
            (WorkerExec(w) /\ func[w] \notin inflight) =>
               /\ wpc'[w] = "done"
               /\ UNCHANGED << m_observers, m_observers_by_id, m_id_manager,
                               last, inflight, mQueue >> ]_vars

\* stop() ended the wait of a worker that had called a task before: the
\* worker is about to call that task again.
C38_Witness ==
    /\ mStopping
    /\ \E w \in Workers :
          /\ wpc[w] = "exec"
          /\ func[w] # NoTask
          /\ func[w] \notin inflight

\* ------------------------------------------- tp::thread_pool, its steps
\* detail::Queue::push at the front of the queue.
Queue_push_front(queue, value) == << value >> \o queue

\* detail::Queue::push: std::queue::push under the queue's mutex.
Queue_push(queue, value) == Append(queue, value)

\* detail::Queue::pop: false on an empty queue, else the front element,
\* which is removed.
Queue_pop(queue) ==
    IF queue = << >> THEN [isPop |-> FALSE, v |-> 0, q |-> queue]
    ELSE [isPop |-> TRUE, v |-> Head(queue), q |-> Tail(queue)]

SeqSet(seq) == {seq[k] : k \in DOMAIN seq}

\* The tasks pushed so far, and the one the next push makes.
Pushed == 1 .. call.pushes
NextTask == call.pushes + 1

\* The number of places that hold a task that was not run yet: the queue
\* and the threads that popped it.
TpHolders(k) ==
    Cardinality({i \in DOMAIN q : q[i] = k})
       + Cardinality({t \in TpThreads :
                         tpc[t] \in {"run", "resizing"} /\ fptr[t] = k})

\* The threads blocked in cv.wait, and nWaiting as the code counts it.
Waiting == {t \in TpThreads : tpc[t] = "wait"}
nWaiting == Cardinality({t \in TpThreads : tpc[t] \in {"wait", "woken"}})

\* cv.notify_one wakes one of the waiting threads, cv.notify_all all of them.
notify_one ==
    IF Waiting = {} THEN tpc' = tpc
    ELSE \E t \in Waiting : tpc' = [tpc EXCEPT ![t] = "woken"]
Notified == [t \in TpThreads |-> IF t \in Waiting THEN "woken" ELSE tpc[t]]
notify_all == tpc' = Notified

\* The pool was not destroyed and the process did not crash.
Alive ==
    /\ call.op # "~thread_pool"
    /\ \A t \in TpThreads : tpc[t] # "crashed"

\* push, first half: the task is wrapped and pushed to the queue.
TpPush ==
    /\ call.pc = "idle" /\ Alive
    /\ NextTask \in TpTasks
    /\ q' = Queue_push(q, NextTask)
    /\ call' = [call EXCEPT !.pc = "push_notify", !.op = "push",
                            !.arg = NextTask, !.pushes = NextTask]
    /\ UNCHANGED << threads, flags, isDone, isStop, tpc, fptr, ran, deleted >>
    /\ UNCHANGED job
    /\ UNCHANGED engineVars

\* push, second half: the pool's mutex is locked and one waiting thread is
\* notified.
TpPushNotify ==
    /\ call.pc = "push_notify"
    /\ notify_one
    /\ call' = [call EXCEPT !.pc = "idle"]
    /\ UNCHANGED << q, threads, flags, isDone, isStop, fptr, ran, deleted >>
    /\ UNCHANGED job
    /\ UNCHANGED engineVars

\* The threads that were never started, in the order they will be.
Unborn == {t \in TpThreads : tpc[t] = "unborn"}
RECURSIVE Fresh_threads(_, _)
Fresh_threads(n, from) ==
    IF n = 0 THEN << >>
    ELSE LET t == CHOOSE u \in from : \A v \in from : u <= v
         IN << t >> \o Fresh_threads(n - 1, from \ {t})

\* resize(nThreads) up to its notify_all: nothing after a stop; growing
\* starts the new threads with a fresh flag each; shrinking sets the flag
\* of every thread beyond nThreads and detaches it.  `shrinks` tells that
\* the second half of resize has something to do.
resize_first(nThreads) ==
    IF isStop \/ isDone
    THEN [threads |-> threads, flags |-> flags, tpc |-> tpc, shrinks |-> FALSE]
    ELSE IF Len(threads) <= nThreads
    THEN LET new == Fresh_threads(nThreads - Len(threads), Unborn)
         IN [threads |-> threads \o new, flags |-> flags,
             tpc |-> [t \in TpThreads |->
                        IF t \in SeqSet(new) THEN "start" ELSE tpc[t]],
             shrinks |-> FALSE]
    ELSE [threads |-> threads,
          flags |-> [t \in TpThreads |->
                       \/ flags[t]
                       \/ \E i \in nThreads + 1 .. Len(threads) :
                             threads[i] = t],
          tpc |-> tpc, shrinks |-> TRUE]

\* The model has the threads to start that resize(nThreads) asks for.
CanResize(nThreads) ==
    isStop \/ isDone \/ Cardinality(Unborn) >= nThreads - Len(threads)

\* resize(nThreads) called by the application.
resize(nThreads) ==
    /\ call.pc = "idle" /\ Alive
    /\ CanResize(nThreads)
    /\ LET r == resize_first(nThreads)
       IN /\ threads' = r.threads
          /\ flags' = r.flags
          /\ tpc' = r.tpc
          /\ call' = [call EXCEPT
                        !.pc = IF r.shrinks THEN "resize_notify" ELSE "idle",
                        !.op = "resize", !.arg = nThreads]
    /\ UNCHANGED << q, isDone, isStop, fptr, ran, deleted >>
    /\ UNCHANGED job
    /\ UNCHANGED engineVars

\* resize, shrinking: the waiting threads are notified and the vectors are
\* cut to nThreads.
TpResizeNotify ==
    /\ call.pc = "resize_notify"
    /\ notify_all
    /\ threads' = SubSeq(threads, 1, call.arg)
    /\ call' = [call EXCEPT !.pc = "idle"]
    /\ UNCHANGED << q, flags, isDone, isStop, fptr, ran, deleted >>
    /\ UNCHANGED job
    /\ UNCHANGED engineVars

\* stop(isWait), up to its notify_all; `by` is "stop" or, for the call the
\* destructor makes, "~thread_pool".  A second stop returns at once.
stop(isWait, by) ==
    /\ call.pc = "idle" /\ Alive
    /\ by = "~thread_pool" => isWait
    /\ IF ~ isWait
       THEN IF isStop
            THEN /\ call' = [call EXCEPT !.op = by, !.arg = 0]
                 /\ UNCHANGED << isStop, flags, isDone >>
            ELSE /\ isStop' = TRUE
                 /\ flags' = [t \in TpThreads |->
                                flags[t] \/ t \in SeqSet(threads)]
                 /\ call' = [call EXCEPT !.pc = "stop_clear", !.op = by,
                                         !.arg = 0]
                 /\ UNCHANGED isDone
       ELSE IF isDone \/ isStop
            THEN /\ call' = [call EXCEPT !.op = by, !.arg = 1]
                 /\ UNCHANGED << isStop, flags, isDone >>
            ELSE /\ isDone' = TRUE
                 /\ call' = [call EXCEPT !.pc = "stop_notify", !.op = by,
                                         !.arg = 1]
                 /\ UNCHANGED << isStop, flags >>
    /\ UNCHANGED << q, threads, tpc, fptr, ran, deleted >>
    /\ UNCHANGED job
    /\ UNCHANGED engineVars

\* clear_queue: every task in the queue is deleted.
clear_queue ==
    /\ deleted' = deleted \cup SeqSet(q)
    /\ q' = << >>

\* stop(false): the queue is emptied.
TpStopClear ==
    /\ call.pc = "stop_clear"
    /\ clear_queue
    /\ call' = [call EXCEPT !.pc = "stop_notify"]
    /\ UNCHANGED << threads, flags, isDone, isStop, tpc, fptr, ran >>
    /\ UNCHANGED job
    /\ UNCHANGED engineVars

\* stop: every waiting thread is notified.
TpStopNotify ==
    /\ call.pc = "stop_notify"
    /\ notify_all
    /\ call' = [call EXCEPT !.pc = "stop_join"]
    /\ UNCHANGED << q, threads, flags, isDone, isStop, fptr, ran, deleted >>
    /\ UNCHANGED job
    /\ UNCHANGED engineVars

\* stop: every thread of the vector was joined; what is left in the queue
\* is deleted, the vectors are cleared and stop returns.
TpStopJoin ==
    /\ call.pc = "stop_join"
    /\ \A t \in SeqSet(threads) : tpc[t] = "gone"
    /\ clear_queue
    /\ threads' = << >>
    /\ call' = [call EXCEPT !.pc = "idle", !.stopped = TRUE]
    /\ UNCHANGED << flags, isDone, isStop, tpc, fptr, ran >>
    /\ UNCHANGED job
    /\ UNCHANGED engineVars

\* The thread's first pop, before its loop.
TpWorkerStart(t) ==
    /\ tpc[t] = "start"
    /\ LET r == Queue_pop(q)
       IN /\ q' = r.q
          /\ fptr' = [fptr EXCEPT ![t] = r.v]
          /\ tpc' = [tpc EXCEPT ![t] = IF r.isPop THEN "run" ELSE "lock"]
    /\ UNCHANGED << threads, flags, isDone, isStop, ran, deleted, call >>
    /\ UNCHANGED job
    /\ UNCHANGED engineVars

\* A wait that ends without a notification.
TpSpuriousWake(t) ==
    /\ tpc[t] = "wait"
    /\ tpc' = [tpc EXCEPT ![t] = "woken"]
    /\ UNCHANGED << q, threads, flags, isDone, isStop, fptr, ran, deleted,
                    call >>
    /\ UNCHANGED job
    /\ UNCHANGED engineVars

\* A wait that blocks before it has evaluated its predicate.
cv_wait_unchecked(t, entering) ==
    LET r == Queue_pop(q)
    IN IF entering THEN [q |-> q, v |-> 0, to |-> "wait"]
       ELSE [q |-> r.q, v |-> r.v,
             to |-> IF r.isPop THEN "run"
                    ELSE IF isDone \/ flags[t] THEN "gone" ELSE "wait"]

\* cv.wait(lock, predicate), which is while (!predicate()) wait(lock), on
\* entry and after a wake-up: the predicate pops; with a task the thread
\* goes on to run it, without one it returns when isDone or its flag is
\* set, and else it blocks, releasing the mutex.
cv_wait(t, entering) ==
    LET r == Queue_pop(q)
    IN [q |-> r.q, v |-> r.v,
        to |-> IF r.isPop THEN "run"
               ELSE IF isDone \/ flags[t] THEN "gone" ELSE "wait"]

\* The thread's wait, with the pool's mutex held.
TpWorkerWait(t) ==
    /\ tpc[t] \in {"lock", "woken"}
    /\ LET r == cv_wait(t, tpc[t] = "lock")
       IN /\ q' = r.q
          /\ fptr' = [fptr EXCEPT ![t] = r.v]
          /\ tpc' = [tpc EXCEPT ![t] = r.to]
    /\ UNCHANGED << threads, flags, isDone, isStop, ran, deleted, call >>
    /\ UNCHANGED job
    /\ UNCHANGED engineVars

\* (*_f)(i): the task, a callback, runs and returns.
TpWorkerRun(t) ==
    /\ tpc[t] = "run"
    /\ job[fptr[t]] = NoResize
    /\ ran' = [ran EXCEPT ![fptr[t]] = IF @ < 2 THEN @ + 1 ELSE @]
    /\ tpc' = [tpc EXCEPT ![t] = "after"]
    /\ UNCHANGED << q, threads, flags, isDone, isStop, fptr, deleted, call >>
    /\ UNCHANGED job
    /\ UNCHANGED engineVars

\* After the task: the thread returns when its flag is set, even with tasks
\* in the queue, and else pops the next one.
TpWorkerNext(t) ==
    /\ tpc[t] = "after"
    /\ IF flags[t]
       THEN /\ tpc' = [tpc EXCEPT ![t] = "gone"]
            /\ fptr' = [fptr EXCEPT ![t] = 0]
            /\ UNCHANGED q
       ELSE LET r == Queue_pop(q)
            IN /\ q' = r.q
               /\ fptr' = [fptr EXCEPT ![t] = r.v]
               /\ tpc' = [tpc EXCEPT ![t] = IF r.isPop THEN "run" ELSE "lock"]
    /\ UNCHANGED << threads, flags, isDone, isStop, ran, deleted, call >>
    /\ UNCHANGED job
    /\ UNCHANGED engineVars

TpWorker ==
    \/ \E t \in TpThreads : TpWorkerStart(t)
    \/ \E t \in TpThreads : TpWorkerWait(t)
    \/ \E t \in TpThreads : TpWorkerRun(t)
    \/ \E t \in TpThreads : TpWorkerNext(t)
    \/ \E t \in TpThreads : TpSpuriousWake(t)

TpInit == Constructed /\ oldSig = NotKept /\ dtor = "never"

\* notifly::resize_thread_pool of the engine that owns a tp::thread_pool:
\* it pushes a task that calls resize(a_threads).
resize_thread_pool(a_threads) ==
    /\ call.pc = "idle" /\ Alive
    /\ NextTask \in TpTasks
    /\ q' = Queue_push(q, NextTask)
    /\ job' = [job EXCEPT ![NextTask] = a_threads]
    /\ call' = [call EXCEPT !.pc = "push_notify", !.op = "resize_thread_pool",
                            !.arg = a_threads, !.pushes = NextTask]
    /\ UNCHANGED << threads, flags, isDone, isStop, tpc, fptr, ran, deleted >>
    /\ UNCHANGED engineVars

\* Another thread is inside resize: the vectors `threads` and `flags` are
\* read and written by two threads at once.
ResizeRace(t) ==
    \/ call.pc = "resize_notify"
    \/ \E u \in TpThreads \ {t} : tpc[u] = "resizing"

\* (*_f)(i) for a task of resize_thread_pool: the thread calls resize, here
\* up to its notify_all.  With another thread inside resize the accesses
\* to the vectors race, which is undefined: the call may go on as if alone
\* or the process may crash.
TpWorkerResize(t) ==
    /\ tpc[t] = "run"
    /\ job[fptr[t]] # NoResize
    /\ CanResize(job[fptr[t]])
    /\ \E outcome \in IF ResizeRace(t) THEN {"resizing", "crashed"}
                       ELSE {"resizing"} :
          IF outcome = "crashed"
          THEN /\ tpc' = [u \in TpThreads |-> "crashed"]
               /\ UNCHANGED << threads, flags >>
          ELSE LET r == resize_first(job[fptr[t]])
               IN /\ threads' = r.threads
                  /\ flags' = r.flags
                  /\ tpc' = [r.tpc EXCEPT ![t] = "resizing"]
    /\ UNCHANGED << q, isDone, isStop, fptr, ran, deleted, job, call >>
    /\ UNCHANGED engineVars

\* The rest of the resize a thread called: after shrinking, the waiting
\* threads are notified and the vectors are cut; the task returns.
TpWorkerResized(t) ==
    /\ tpc[t] = "resizing"
    /\ IF ~ (isStop \/ isDone) /\ Len(threads) > job[fptr[t]]
       THEN /\ threads' = SubSeq(threads, 1, job[fptr[t]])
            /\ tpc' = [Notified EXCEPT ![t] = "after"]
       ELSE /\ tpc' = [tpc EXCEPT ![t] = "after"]
            /\ UNCHANGED threads
    /\ ran' = [ran EXCEPT ![fptr[t]] = IF @ < 2 THEN @ + 1 ELSE @]
    /\ UNCHANGED << q, flags, isDone, isStop, fptr, deleted, job, call >>
    /\ UNCHANGED engineVars

\* No task that calls resize is waiting or running.
NoResizeTask == \A k \in Pushed : job[k] = NoResize \/ ran[k] > 0

\* resize_thread_pool(a_threads) asks for no more threads than the pool
\* has or will have after the resizes already pushed: the pool is grown by
\* the application itself.
Shrinking(a_threads) ==
    /\ a_threads <= Len(threads)
    /\ \A k \in Pushed : job[k] = NoResize \/ ran[k] > 0 \/ a_threads <= job[k]

\* An application that pushes tasks and resizes the pool, from one thread:
\* itself, while no thread of the pool is to call resize, or with
\* resize_thread_pool.
ResizeNext ==
    \/ TpPush
    \/ TpPushNotify
    \/ NoResizeTask /\ \E nThreads \in 0 .. MaxThreads : resize(nThreads)
    \/ TpResizeNotify
    \/ \E a_threads \in 0 .. MaxThreads :
          Shrinking(a_threads) /\ resize_thread_pool(a_threads)
    \/ \E t \in TpThreads : TpWorkerResize(t)
    \/ \E t \in TpThreads : TpWorkerResized(t)
    \/ TpWorker

\* Every thread that can take a step eventually takes it, and a call in
\* progress goes on; no wait has to end without a notification.
TpFair ==
    /\ \A t \in TpThreads :
          /\ WF_vars(TpWorkerStart(t))
          /\ WF_vars(TpWorkerWait(t))
          /\ WF_vars(TpWorkerRun(t))
          /\ WF_vars(TpWorkerNext(t))
          /\ WF_vars(TpWorkerResize(t))
          /\ WF_vars(TpWorkerResized(t))
    /\ WF_vars(TpPushNotify)
    /\ WF_vars(TpResizeNotify)

ResizeSpec == TpInit /\ [][ResizeNext]_vars /\ TpFair

\* A step of resize, called by the application or by a thread of the pool.
Resizing ==
    \/ \E nThreads \in 0 .. MaxThreads : resize(nThreads)
    \/ TpResizeNotify
    \/ \E t \in TpThreads : TpWorkerResize(t)

\* C35: resizing drops no work.  The process does not crash, no task is
\* deleted or run twice, every task pushed and not run is in exactly one
\* place, the queue or a thread;
\* a step of resize leaves the queue and the tasks of the threads as they
\* are, growing to n leaves n threads in the pool; a thread returns only
\* without a task or after the task it popped was run; and a queued task
\* is eventually run unless the pool is shrunk to no thread.
C35_ResizeKeepsWork ==
    /\ [](/\ deleted = {}
          /\ \A t \in TpThreads : tpc[t] # "crashed"
          /\ \A k \in TpTasks :
                /\ ran[k] <= 1
                /\ TpHolders(k) = IF k \in Pushed /\ ran[k] = 0 THEN 1 ELSE 0)
    /\ [][ /\ Resizing => UNCHANGED << q, fptr, ran >>
           /\ \A nThreads \in 0 .. MaxThreads :
                 (resize(nThreads) /\ Len(threads) <= nThreads) =>
                    /\ Len(threads') = nThreads
                    /\ \A i \in DOMAIN threads' :
                          i > Len(threads) => tpc'[threads'[i]] = "start"
           /\ \A t \in TpThreads :
                 (tpc[t] # "gone" /\ tpc'[t] = "gone") =>
                    fptr[t] = 0 \/ ran[fptr[t]] = 1 ]_vars
    /\ \A k \in TpTasks :
          (k \in SeqSet(q) /\ threads # << >>)
             ~> (ran[k] = 1 \/ threads = << >>)

\* An application that pushes tasks, resizes the pool and stops or destroys
\* it, from one thread; it pushes nothing to a pool it has stopped.
HaltNext ==
    \/ ~ (isDone \/ isStop) /\ TpPush
    \/ TpPushNotify
    \/ \E nThreads \in 0 .. MaxThreads : resize(nThreads)
    \/ TpResizeNotify
    \/ \E isWait \in BOOLEAN : stop(isWait, "stop")
    \/ stop(TRUE, "~thread_pool")
    \/ TpStopClear
    \/ TpStopNotify
    \/ TpStopJoin
    \/ TpWorker

HaltSpec == TpInit /\ [][HaltNext]_vars

\* C36: stop(true), from the application or from the destructor, returns
\* from a pool with at least one thread only when every task pushed before
\* has been run; the tasks stop(false) deletes are never run and when it
\* returns the queue is empty and no thread of the pool is running a task;
\* once a stop has returned, a call of stop or resize changes neither the
\* queue nor the threads nor any task.
C36_StopDrainsOrDiscards ==
    /\ [](\A k \in deleted : ran[k] = 0 /\ TpHolders(k) = 0)
    /\ [][ /\ (TpStopJoin /\ call.arg = 1 /\ threads # << >>) =>
                 \A k \in Pushed : ran'[k] = 1
           /\ (TpStopJoin /\ call.arg = 0) =>
                 /\ q' = << >>
                 /\ \A t \in SeqSet(threads) : tpc'[t] = "gone"
           /\ (call.stopped /\ call' # call) =>
                 UNCHANGED << q, threads, flags, tpc, fptr, ran, deleted >>
         ]_vars

\* ------------------------------------ PartyThreads::Pool, statement by
\* statement.  The workers of the pool are those of the engine's m_pool; a
\* worker at the head of its loop is "idle".
\* The k-th task the application pushes to the pool.
PtTask(k) == [post |-> 1, id |-> k, kind |-> "plain", notification |-> poster]

\* Pool::push, first half: the task is wrapped and pushed to the queue.
PtPush ==
    /\ call.pc = "idle"
    /\ NextTask \in TpTasks
    /\ mQueue' = push(mQueue, PtTask(NextTask))
    /\ inflight' = inflight \cup {PtTask(NextTask)}
    /\ call' = [call EXCEPT !.pc = "Pool::push_notify", !.op = "Pool::push",
                            !.arg = NextTask, !.pushes = NextTask]
    /\ UNCHANGED << m_observers, m_observers_by_id, m_id_manager, m_mutex,
                    mStopping, dtor, wpc, func, pc, post, calls, last, ready,
                    regOrder, oldSig, rerun, pw, rm, another_notifly,
                    adapter >>
    /\ UNCHANGED << q, threads, flags, isDone, isStop, tpc, fptr, ran, deleted,
                    job >>

\* Pool::push, second half: mMutex is locked and one waiting worker is
\* notified.
PtPushNotify ==
    /\ call.pc = "Pool::push_notify"
    /\ IF \A w \in Workers : wpc[w] # "wait" THEN wpc' = wpc
       ELSE \E w \in Workers :
               /\ wpc[w] = "wait"
               /\ wpc' = [wpc EXCEPT ![w] = "woken"]
    /\ call' = [call EXCEPT !.pc = "idle"]
    /\ UNCHANGED << m_observers, m_observers_by_id, m_id_manager, m_mutex,
                    mQueue, mStopping, dtor, func, pc, post, calls, last,
                    ready, regOrder, oldSig, inflight, rerun, pw, rm,
                    another_notifly, adapter >>
    /\ UNCHANGED << q, threads, flags, isDone, isStop, tpc, fptr, ran, deleted,
                    job >>

\* The head of the worker's loop: it leaves when the pool is stopping, and
\* else pops; without a task it goes on to lock mMutex for its wait.
PtWorkerLoop(w) ==
    /\ wpc[w] = "idle"
    /\ IF mStopping
       THEN /\ wpc' = [wpc EXCEPT ![w] = "done"]
            /\ UNCHANGED << mQueue, func >>
       ELSE IF mQueue # << >>
       THEN LET r == pop(mQueue)
            IN /\ func' = [func EXCEPT ![w] = r.task]
               /\ mQueue' = r.queue
               /\ wpc' = [wpc EXCEPT ![w] = "exec"]
       ELSE /\ wpc' = [wpc EXCEPT ![w] = "lock"]
            /\ UNCHANGED << mQueue, func >>
    /\ UNCHANGED << m_observers, m_observers_by_id, m_id_manager, m_mutex,
                    mStopping, dtor, pc, post, calls, last, ready, regOrder,
                    oldSig, inflight, rerun, pw, rm, another_notifly,
                    adapter >>
    /\ UNCHANGED tpVars

\* mCv.wait(lock, predicate) with mMutex held, on entry and after a
\* wake-up: the predicate is true when the pool is stopping, without a
\* pop, or when it popped a task; the worker then calls func if it is set.
\* Else the worker blocks, releasing the mutex.
PtWorkerWait(w) ==
    /\ wpc[w] \in {"lock", "woken"}
    /\ IF mStopping
       THEN /\ wpc' = [wpc EXCEPT
                         ![w] = IF func[w] = NoTask THEN "done" ELSE "exec"]
            /\ UNCHANGED << mQueue, func >>
       ELSE IF mQueue # << >>
       THEN LET r == pop(mQueue)
            IN /\ func' = [func EXCEPT ![w] = r.task]
               /\ mQueue' = r.queue
               /\ wpc' = [wpc EXCEPT ![w] = "exec"]
       ELSE /\ wpc' = [wpc EXCEPT ![w] = "wait"]
            /\ UNCHANGED << mQueue, func >>
    /\ UNCHANGED << m_observers, m_observers_by_id, m_id_manager, m_mutex,
                    mStopping, dtor, pc, post, calls, last, ready, regOrder,
                    oldSig, inflight, rerun, pw, rm, another_notifly,
                    adapter >>
    /\ UNCHANGED tpVars

\* A wait of a worker that ends without a notification.
PtSpuriousWake(w) ==
    /\ wpc[w] = "wait"
    /\ wpc' = [wpc EXCEPT ![w] = "woken"]
    /\ UNCHANGED << m_observers, m_observers_by_id, m_id_manager, m_mutex,
                    mQueue, mStopping, dtor, func, pc, post, calls, last,
                    ready, regOrder, oldSig, inflight, rerun, pw, rm,
                    another_notifly, adapter >>
    /\ UNCHANGED tpVars

\* An application that pushes tasks to one of the two pools and never stops
\* it: to a PartyThreads::Pool, whose workers exist from its construction,
\* or to a tp::thread_pool that it grows.
UsesParty == call.op \in {"none", "Pool::push"}
UsesTp ==
    /\ call.op # "Pool::push"
    /\ mQueue = << >>
    /\ \A w \in Workers : wpc[w] = "idle"

WakeNext ==
    \/ UsesParty /\ PtPush
    \/ PtPushNotify
    \/ \E w \in Workers : UsesParty /\ PtWorkerLoop(w)
    \/ \E w \in Workers : UsesParty /\ PtWorkerWait(w)
    \/ \E w \in Workers : UsesParty /\ PtSpuriousWake(w)
    \/ \E w \in Workers : WorkerExec(w)
    \/ UsesTp /\ TpPush
    \/ TpPushNotify
    \/ \E nThreads \in 1 .. MaxThreads :
          UsesTp /\ Len(threads) <= nThreads /\ resize(nThreads)
    \/ TpWorker

WakeSpec ==
    /\ TpInit /\ [][WakeNext]_vars
    /\ TpFair
    /\ WF_vars(PtPushNotify)
    /\ \A w \in Workers :
          /\ WF_vars(UsesParty /\ PtWorkerLoop(w))
          /\ WF_vars(UsesParty /\ PtWorkerWait(w))
          /\ WF_vars(WorkerExec(w))

\* C37: a task pushed to a running pool is taken by one worker and run
\* once, wherever the workers stand when it is pushed.  In both pools a
\* task that was not run is in exactly one place, the queue or one worker,
\* and no task is run twice; a task in the queue of a tp::thread_pool with
\* a thread, and a task pushed to a PartyThreads::Pool, is eventually run.
C37_NoLostWakeup ==
    /\ [](/\ ~ rerun
          /\ \A k \in TpTasks :
                /\ ran[k] <= 1
                /\ TpHolders(k) = IF /\ call.op # "Pool::push"
                                     /\ k \in Pushed /\ ran[k] = 0
                                  THEN 1 ELSE 0
                /\ Holders(PtTask(k)) = IF PtTask(k) \in inflight
                                        THEN 1 ELSE 0)
    /\ \A k \in TpTasks :
          (k \in SeqSet(q) /\ threads # << >>) ~> (ran[k] = 1)
    /\ \A k \in TpTasks :
          (PtTask(k) \in inflight) ~> (PtTask(k) \notin inflight)

\* push has returned, its notification reached no thread, and the only
\* thread of the pool, which found the queue empty before the push, is
\* about to wait.
C37_Witness ==
    /\ call.op = "push" /\ call.pc = "idle"
    /\ q # << >>
    /\ Len(threads) = 1
    /\ tpc[threads[1]] = "lock"

\* C39: the queue of each pool is first in, first out.  The tasks of a
\* queue stand in the order of their pushes, a task that left the queue
\* left it after every task pushed before it, and a pool that only ever
\* had one thread starts the tasks in the order of their pushes.
C39_QueueIsFifo ==
    /\ [](/\ \A i, j \in DOMAIN q : i < j => q[i] < q[j]
          /\ \A i, j \in DOMAIN mQueue : i < j => mQueue[i].id < mQueue[j].id
          /\ \A k1, k2 \in Pushed :
                k1 < k2 =>
                   /\ k2 \notin SeqSet(q) => k1 \notin SeqSet(q)
                   /\ PtTask(k2) \notin SeqSet(mQueue) =>
                         PtTask(k1) \notin SeqSet(mQueue))
    /\ [][\A t \in TpThreads :
            (TpWorkerRun(t) /\ \A u \in TpThreads \ {t} : tpc[u] = "unborn")
               => \A k \in 1 .. fptr[t] - 1 : ran[k] = 1 ]_vars

\* Two tasks were pushed before the pool got its only thread; the thread
\* has taken the first one and the second one is still queued.
C39_Witness ==
    /\ call.op = "resize" /\ call.pushes = 2
    /\ Len(threads) = 1
    /\ tpc[threads[1]] = "run" /\ fptr[threads[1]] = 1
    /\ q = << 2 >>

====
